---- MODULE Spec2Model ----
(***************************************************************************)
(* criterion-hypothesis: the benchmark harness HTTP server (claim state    *)
(* machine, claim-gated endpoints) and the orchestrator that drives two    *)
(* harnesses (spawn mode: Orchestrator::run, attach mode: run_with_urls).  *)
(*                                                                         *)
(* Strings are sequences of Unicode code points, header values are         *)
(* sequences of bytes, Option<T> is a sequence of length 0 or 1.           *)
(***************************************************************************)
EXTENDS Integers, Sequences, FiniteSets, Bags, TLC

VARIABLES
    confidence_level,   \* WelchTTest.confidence_level, a rational
    state_claim,        \* AppState.claim of each harness: Option<String>
    state_shutdown_tx,  \* AppState.shutdown_tx of each harness: the watch value
    registry,           \* AppState.registry of each harness: the registered ids
    proc,               \* the harness process: "none", "starting", "serving",
                        \* "stopped" (accept loop ended), "exited" (bind
                        \* failed), "killed"
    running,            \* per harness: the bag of /run and /shutdown requests
                        \* past check_claim whose handler has not returned
    held,               \* per harness: clients with a granted, unreleased claim
    last,               \* the last HTTP exchange: request, prior claim, response
    mode,               \* "raw", "spawn" (Orchestrator::run) or "attach" (run_with_urls)
    pc,                 \* where the orchestrator is: <<step, harness>>
    urls,               \* attach mode: the URL given for each harness
    warmup_iterations,  \* Orchestrator.warmup_iterations
    sample_size,        \* Orchestrator.sample_size
    handle,             \* the HarnessHandle of each harness
    uuid_next,          \* how many nonces Uuid::new_v4 has produced
    base_port,          \* Orchestrator.base_port, a u16
    timeout,            \* wait_for_health: the timeout, in retry intervals
    elapsed,            \* wait_for_health: start.elapsed() when the loop was last
                        \* seen, in retry intervals
    last_error,         \* wait_for_health: last_error
    healthy,            \* the harnesses for which wait_for_health returned Ok
    health_error,       \* wait_for_health: the e of the most recent Err(e) arm taken,
                        \* None once the wait has returned Ok
    baseline_benchmarks,   \* the list /benchmarks returned for the baseline
    candidate_benchmarks,  \* the list /benchmarks returned for the candidate
    idx,                \* position of the for loop over baseline_benchmarks
    phase,              \* "warmup" or "measure" within one benchmark
    round,              \* the loop counter of the current phase
    samples,            \* the BenchmarkSamples being collected
    results,            \* the Vec<BenchmarkSamples> collected so far
    sent,               \* the /claim, /benchmarks and /run requests the orchestrator
                        \* issued, and how each /run ended, in order
    result,             \* the outcome of the health/claim/validate/sample phase
    returned,           \* what the orchestration returned to its caller
    trace               \* what the orchestrator did, in order: <<event, harness>>

harness_vars == <<state_claim, state_shutdown_tx, registry, proc, running, held, last>>

config_vars ==
    <<mode, urls, warmup_iterations, sample_size, confidence_level, timeout, base_port>>

health_vars == <<elapsed, last_error, healthy, health_error>>

sample_vars ==
    <<baseline_benchmarks, candidate_benchmarks, idx, phase, round, samples, results, sent>>

orch_vars == <<config_vars, pc, handle, uuid_next, health_vars, sample_vars, result, returned, trace>>

vars == <<harness_vars, orch_vars>>

-----------------------------------------------------------------------------
(* Option<T> *)

None == << >>

Some(v) == << v >>

is_some(o) == o # None

unwrap(o) == o[1]

Min(a, b) == IF a < b THEN a ELSE b

-----------------------------------------------------------------------------
(* Strings and header values *)

\* The UTF-8 encoding of one code point (1 to 4 bytes).
Utf8Char(cp) ==
    IF cp < 128 THEN << cp >>
    ELSE IF cp < 2048 THEN << 192 + (cp \div 64), 128 + (cp % 64) >>
    ELSE IF cp < 65536
    THEN << 224 + (cp \div 4096), 128 + ((cp \div 64) % 64), 128 + (cp % 64) >>
    ELSE << 240 + (cp \div 262144), 128 + ((cp \div 4096) % 64),
            128 + ((cp \div 64) % 64), 128 + (cp % 64) >>

RECURSIVE Utf8(_)
\* The bytes of a Rust String.
Utf8(s) == IF s = << >> THEN << >> ELSE Utf8Char(Head(s)) \o Utf8(Tail(s))

\* str::is_char_boundary(index) on the bytes of s.
is_char_boundary(s, index) ==
    LET bytes == Utf8(s) IN
    IF index = 0 THEN TRUE
    ELSE IF index >= Len(bytes) THEN index = Len(bytes)
    ELSE bytes[index + 1] < 128 \/ bytes[index + 1] >= 192

\* &s[..end] panics unless end is a char boundary of s.
slice_to_panics(s, end) == ~is_char_boundary(s, end)

\* HeaderValue::to_str: Ok only when every byte is visible ASCII (or a tab).
to_str_is_ok(value) ==
    \A i \in 1..Len(value) : (value[i] >= 32 /\ value[i] < 127) \/ value[i] = 9

\* value.to_str().unwrap_or("") as bytes.
to_str_unwrap_or_empty(value) == IF to_str_is_ok(value) THEN value ELSE << >>

\* Uuid::new_v4().to_string(): 36 characters, hyphenated, version digit 4.
Uuid(d) ==
    [i \in 1..36 |-> IF i \in {9, 14, 19, 24} THEN 45 ELSE IF i = 15 THEN 52 ELSE d]

NonceEmpty == << >>

NonceA == Uuid(97)

NonceB == Uuid(98)

\* "1234567" followed by U+00E9: byte 8 falls inside the two-byte character.
NonceSplit == << 49, 50, 51, 52, 53, 54, 55, 233 >>

Harnesses == {"baseline", "candidate"}

Clients == {"orch", "rival"}

\* The nonces each client puts in /claim and /release bodies (disjoint sets).
NoncesOf(c) == IF c = "orch" THEN {NonceEmpty, NonceA} ELSE {NonceB, NonceSplit}

AllNonces == UNION {NoncesOf(c) : c \in Clients}

\* The values of the X-Harness-Claim header a client may send (None: absent).
Headers == {None, Some(<< >>), Some(Utf8(NonceA)), Some(Utf8(NonceB)), Some(<< 255 >>)}

BenchIds == {"bench_a", "bench_b"}

-----------------------------------------------------------------------------
(* Protocol bodies *)

Body == [success |-> None, error |-> None, status |-> None,
         benchmarks |-> None, duration_ns |-> None]

HealthResponse_healthy == [Body EXCEPT !.status = Some("healthy")]

BenchmarkListResponse_new(benchmarks) == [Body EXCEPT !.benchmarks = Some(benchmarks)]

\* A std::time::Duration, kept as its count of nanoseconds hi * 2^64 + lo:
\* Duration holds u64 seconds and a u32 of nanoseconds, and as_nanos() is a
\* u128, so the count can exceed the u64 range (hi > 0).
Duration_from_nanos(ns) == [hi |-> 0, lo |-> ns]

\* duration.as_nanos() as u64: the count modulo 2^64.
as_nanos_as_u64(duration) == duration.lo

RunIterationResponse_success(duration) ==
    [Body EXCEPT !.duration_ns = Some(as_nanos_as_u64(duration)), !.success = Some(TRUE)]

\* RunIterationResponse::duration
RunIterationResponse_duration(body) == Duration_from_nanos(unwrap(body.duration_ns))

RunIterationResponse_failure(error) ==
    [Body EXCEPT !.duration_ns = Some(0), !.success = Some(FALSE), !.error = Some(error)]

ShutdownResponse_acknowledged == [Body EXCEPT !.status = Some("shutting_down")]

ClaimResponse_success == [Body EXCEPT !.success = Some(TRUE)]

ClaimResponse_already_claimed ==
    [Body EXCEPT !.success = Some(FALSE), !.error = Some("already claimed")]

ReleaseResponse_success == [Body EXCEPT !.success = Some(TRUE)]

ReleaseResponse_failure == [Body EXCEPT !.success = Some(FALSE)]

ForbiddenBody(msg) == [Body EXCEPT !.error = Some(msg)]

\* A handler that panics drops the connection: the client gets no HTTP response.
NoResponse == 0

-----------------------------------------------------------------------------
(* Harness handlers: each maps the state it reads and the request to the    *)
(* new state and the response.                                              *)

\* check_claim: TRUE for Ok(()), FALSE for Err(403 response).
check_claim(cl, header) ==
    IF is_some(cl)
    THEN IF is_some(header)
         THEN ~(to_str_unwrap_or_empty(unwrap(header)) # Utf8(unwrap(cl)))
         ELSE FALSE
    ELSE TRUE

check_claim_error(header) ==
    IF is_some(header) THEN "Invalid claim nonce"
    ELSE "Harness is claimed, X-Harness-Claim header required"

Forbidden(cl, tx, header) ==
    [claim |-> cl, tx |-> tx, status |-> 403, body |-> ForbiddenBody(check_claim_error(header)),
     admitted |-> FALSE]

health(cl, tx) ==
    [claim |-> cl, tx |-> tx, status |-> 200, body |-> HealthResponse_healthy, admitted |-> FALSE]

list_benchmarks(cl, tx, reg, header) ==
    IF ~check_claim(cl, header) THEN Forbidden(cl, tx, header)
    ELSE [claim |-> cl, tx |-> tx, status |-> 200, body |-> BenchmarkListResponse_new(reg),
          admitted |-> FALSE]

\* The first half of run_iteration: the claim check. An admitted request
\* goes on to registry.run, outside the claim mutex.
run_iteration_check(cl, tx, header) ==
    IF ~check_claim(cl, header) THEN Forbidden(cl, tx, header)
    ELSE [claim |-> cl, tx |-> tx, status |-> NoResponse, body |-> Body, admitted |-> TRUE]

\* What a call of a benchmark function does: it returns a Duration or panics.
Returns(duration) == [panicked |-> FALSE, duration |-> duration]

Panics == [panicked |-> TRUE, duration |-> Duration_from_nanos(0)]

\* A faulty run_iteration: an unknown id is answered 200.
run_iteration_finish_unknown_ok(reg, id, outcome) ==
    IF id \in reg
    THEN IF outcome.panicked
         THEN [status |-> NoResponse, body |-> Body, invoked |-> TRUE, calls |-> << outcome >>]
         ELSE [status |-> 200, body |-> RunIterationResponse_success(outcome.duration),
               invoked |-> TRUE, calls |-> << outcome >>]
    ELSE [status |-> 200, body |-> RunIterationResponse_failure(<<"Benchmark '", id, "' not found">>),
          invoked |-> FALSE, calls |-> << >>]

\* The second half of run_iteration: registry.run(id) and the response.
\* outcome is what the benchmark function does when it is called. A panic
\* unwinds the task that serves the connection: nothing is written to it.
run_iteration_finish(reg, id, outcome) ==
    IF id \in reg
    THEN IF outcome.panicked
         THEN [status |-> NoResponse, body |-> Body, invoked |-> TRUE, calls |-> << outcome >>]
         ELSE [status |-> 200, body |-> RunIterationResponse_success(outcome.duration),
               invoked |-> TRUE, calls |-> << outcome >>]
    ELSE [status |-> 404, body |-> RunIterationResponse_failure(<<"Benchmark '", id, "' not found">>),
          invoked |-> FALSE, calls |-> << >>]

\* A faulty shutdown: acknowledged, but nothing is sent on the watch channel.
shutdown_no_signal(cl, tx) ==
    [claim |-> cl, tx |-> tx, status |-> 200, body |-> ShutdownResponse_acknowledged,
     admitted |-> TRUE]

\* A faulty shutdown: the claim is dropped with the signal.
shutdown_releases(cl, tx) ==
    [claim |-> None, tx |-> TRUE, status |-> 200, body |-> ShutdownResponse_acknowledged,
     admitted |-> TRUE]

\* shutdown up to the end of check_claim: refused with 403, or let through with
\* the lock on the claim released and the signal not yet sent.
shutdown_check(cl, tx, header) ==
    IF ~check_claim(cl, header) THEN Forbidden(cl, tx, header)
    ELSE [claim |-> cl, tx |-> tx, status |-> NoResponse, body |-> Body, admitted |-> TRUE]

\* The rest of shutdown: shutdown_tx.send(true) and the acknowledgement; cl and
\* tx are the state at the time of the send.
shutdown_finish(cl, tx) ==
    [claim |-> cl, tx |-> TRUE, status |-> 200, body |-> ShutdownResponse_acknowledged,
     admitted |-> TRUE]

\* A faulty claim: a conflicting claim takes the harness over.
claim_takes_over(cl, tx, nonce) ==
    [claim |-> Some(nonce), tx |-> tx, status |-> 200, body |-> ClaimResponse_success,
     admitted |-> FALSE]

\* A faulty claim: a conflicting claim is answered like a refresh.
claim_conflict_ok(cl, tx, nonce) ==
    IF is_some(cl)
    THEN [claim |-> cl, tx |-> tx, status |-> 200, body |-> ClaimResponse_success,
          admitted |-> FALSE]
    ELSE [claim |-> Some(nonce), tx |-> tx, status |-> 200, body |-> ClaimResponse_success,
          admitted |-> FALSE]

claim(cl, tx, nonce) ==
    IF is_some(cl) /\ unwrap(cl) # nonce
    THEN [claim |-> cl, tx |-> tx, status |-> 409, body |-> ClaimResponse_already_claimed,
          admitted |-> FALSE]
    ELSE IF is_some(cl)
    THEN [claim |-> cl, tx |-> tx, status |-> 200, body |-> ClaimResponse_success,
          admitted |-> FALSE]
    ELSE IF slice_to_panics(nonce, Min(8, Len(Utf8(nonce))))
    THEN [claim |-> cl, tx |-> tx, status |-> NoResponse, body |-> Body, admitted |-> FALSE]
    ELSE [claim |-> Some(nonce), tx |-> tx, status |-> 200, body |-> ClaimResponse_success,
          admitted |-> FALSE]

\* A faulty release: any nonce releases a claimed harness.
release_any_nonce(cl, tx, nonce) ==
    IF is_some(cl)
    THEN [claim |-> None, tx |-> tx, status |-> 200, body |-> ReleaseResponse_success,
          admitted |-> FALSE]
    ELSE [claim |-> cl, tx |-> tx, status |-> 400, body |-> ReleaseResponse_failure,
          admitted |-> FALSE]

release(cl, tx, nonce) ==
    IF is_some(cl) /\ unwrap(cl) = nonce
    THEN [claim |-> None, tx |-> tx, status |-> 200, body |-> ReleaseResponse_success,
          admitted |-> FALSE]
    ELSE [claim |-> cl, tx |-> tx, status |-> 400, body |-> ReleaseResponse_failure,
          admitted |-> FALSE]

-----------------------------------------------------------------------------
(* The harness as a state machine over HTTP exchanges *)

\* The durations a benchmark function may return: two short ones and one of
\* 2^64 + 1000 nanoseconds (Duration::new(18446744073, 709552616)).
Durations == {Duration_from_nanos(1000), Duration_from_nanos(10000), [hi |-> 1, lo |-> 1000]}

\* What a call of a benchmark function may do.
Outcomes == {Returns(d) : d \in Durations} \cup {Panics}

\* BenchmarkRegistry::list: the keys of the HashMap, in any order.
registry_list(reg) ==
    {s \in UNION {[1..n -> reg] : n \in {Cardinality(reg)}} :
        \A i, j \in 1..Cardinality(reg) : i # j => s[i] # s[j]}

NoExchange ==
    [h |-> "", client |-> "", kind |-> "none", header |-> None, nonce |-> None, id |-> "",
     pre |-> None, pre_tx |-> FALSE, status |-> NoResponse, body |-> Body, admitted |-> FALSE,
     invoked |-> FALSE, calls |-> << >>]

Exchange(h, c, kind, header, nonce, id, r) ==
    [h |-> h, client |-> c, kind |-> kind, header |-> header, nonce |-> nonce, id |-> id,
     pre |-> state_claim[h], pre_tx |-> state_shutdown_tx[h], status |-> r.status,
     body |-> r.body, admitted |-> r.admitted, invoked |-> FALSE, calls |-> << >>]

\* Apply a handler's result r to harness h and record the exchange.
Handle(h, c, kind, header, nonce, id, r) ==
    /\ state_claim' = [state_claim EXCEPT ![h] = r.claim]
    /\ state_shutdown_tx' = [state_shutdown_tx EXCEPT ![h] = r.tx]
    /\ last' = Exchange(h, c, kind, header, nonce, id, r)

\* The accept loop of harness h takes new requests.
serving(h) == proc[h] = "serving"

\* The handlers of harness h that are past check_claim and have not returned.
in_flight(h) == BagToSet(running[h])

\* How many of them satisfy P.
InFlightCount(h, P(_)) ==
    BagCardinality([r \in {x \in in_flight(h) : P(x)} |-> CopiesIn(r, running[h])])

\* How many handlers in flight the model follows at a time; the router itself
\* takes a request whatever else is in flight.
MaxInFlight == 3

\* Harness h has room for one more handler past check_claim.
Room(h) == BagCardinality(running[h]) < MaxInFlight

GetHealth(c, h) ==
    /\ serving(h)
    /\ Handle(h, c, "health", None, None, "", health(state_claim[h], state_shutdown_tx[h]))
    /\ UNCHANGED <<registry, proc, running, held>>

GetBenchmarks(c, h, header) ==
    /\ serving(h)
    /\ \E listing \in registry_list(registry[h]) :
          Handle(h, c, "benchmarks", header, None, "",
                 list_benchmarks(state_claim[h], state_shutdown_tx[h], listing, header))
    /\ UNCHANGED <<registry, proc, running, held>>

\* A request that passed check_claim and whose handler has not returned yet.
InFlight(c, kind, id) == [client |-> c, kind |-> kind, id |-> id]

\* POST /run up to the end of check_claim.
PostRun(c, h, header, id) ==
    /\ serving(h)
    /\ LET r == run_iteration_check(state_claim[h], state_shutdown_tx[h], header) IN
       /\ r.admitted => Room(h)
       /\ Handle(h, c, "run", header, None, id, r)
       /\ running' = IF r.admitted
                     THEN [running EXCEPT ![h] = @ (+) SetToBag({InFlight(c, "run", id)})]
                     ELSE running
    /\ UNCHANGED <<registry, proc, held>>

\* The rest of an admitted POST /run: the benchmark function and the response.
FinishRun(h, req, outcome) ==
    /\ req \in in_flight(h) /\ req.kind = "run"
    /\ LET r == run_iteration_finish(registry[h], req.id, outcome) IN
       last' = [NoExchange EXCEPT !.h = h, !.client = req.client, !.kind = "run_done",
                                  !.id = req.id, !.pre = state_claim[h],
                                  !.pre_tx = state_shutdown_tx[h], !.status = r.status,
                                  !.body = r.body, !.admitted = TRUE, !.invoked = r.invoked,
                                  !.calls = r.calls]
    /\ running' = [running EXCEPT ![h] = @ (-) SetToBag({req})]
    /\ UNCHANGED <<state_claim, state_shutdown_tx, registry, proc, held>>

\* POST /shutdown up to the end of check_claim.
PostShutdown(c, h, header) ==
    /\ serving(h)
    /\ LET r == shutdown_check(state_claim[h], state_shutdown_tx[h], header) IN
       /\ r.admitted => Room(h)
       /\ Handle(h, c, "shutdown", header, None, "", r)
       /\ running' = IF r.admitted
                     THEN [running EXCEPT ![h] = @ (+) SetToBag({InFlight(c, "shutdown", "")})]
                     ELSE running
    /\ UNCHANGED <<registry, proc, held>>

\* The rest of an admitted POST /shutdown: the signal and the response. Other
\* requests may have been handled since check_claim returned.
FinishShutdown(h, req) ==
    /\ req \in in_flight(h) /\ req.kind = "shutdown"
    /\ Handle(h, req.client, "shutdown_done", None, None, "",
              shutdown_finish(state_claim[h], state_shutdown_tx[h]))
    /\ running' = [running EXCEPT ![h] = @ (-) SetToBag({req})]
    /\ UNCHANGED <<registry, proc, held>>

PostClaim(c, h, nonce) ==
    /\ serving(h)
    /\ LET r == claim(state_claim[h], state_shutdown_tx[h], nonce) IN
       /\ Handle(h, c, "claim", None, Some(nonce), "", r)
       /\ held' = IF r.status = 200 THEN [held EXCEPT ![h] = @ \cup {c}] ELSE held
    /\ UNCHANGED <<registry, proc, running>>

PostRelease(c, h, nonce) ==
    /\ serving(h)
    /\ LET r == release(state_claim[h], state_shutdown_tx[h], nonce) IN
       /\ Handle(h, c, "release", None, Some(nonce), "", r)
       /\ held' = IF r.status = 200 THEN [held EXCEPT ![h] = @ \ {c}] ELSE held
    /\ UNCHANGED <<registry, proc, running>>

\* with_graceful_shutdown: once the watch value is true the accept loop stops.
GracefulShutdown(h) ==
    /\ serving(h) /\ state_shutdown_tx[h]
    /\ proc' = [proc EXCEPT ![h] = "stopped"]
    /\ UNCHANGED <<state_claim, state_shutdown_tx, registry, running, held, last>>

\* run_harness_async: a fresh AppState, unclaimed, not shut down.
HarnessInit ==
    /\ state_claim = [h \in Harnesses |-> None]
    /\ state_shutdown_tx = [h \in Harnesses |-> FALSE]
    /\ running = [h \in Harnesses |-> EmptyBag]
    /\ held = [h \in Harnesses |-> {}]
    /\ last = NoExchange

\* A child process that was spawned and has not exited or been killed.
alive(h) ==
    \/ proc[h] \in {"starting", "serving"}
    \/ proc[h] = "stopped" /\ in_flight(h) # {}

\* The harness binary binds its listener and starts to serve.
HarnessReady(h) ==
    /\ proc[h] = "starting"
    /\ proc' = [proc EXCEPT ![h] = "serving"]
    /\ UNCHANGED <<state_claim, state_shutdown_tx, registry, running, held, last>>

\* TcpListener::bind fails (the port is taken): run_harness_async returns the
\* error and the process ends without having served a request.
HarnessBindFails(h) ==
    /\ proc[h] = "starting"
    /\ proc' = [proc EXCEPT ![h] = "exited"]
    /\ UNCHANGED <<state_claim, state_shutdown_tx, registry, running, held, last>>

-----------------------------------------------------------------------------
(* The orchestrator: HarnessHandle *)

Orch == "orch"

Rival == "rival"

\* The nonce of the other orchestrator.
RivalNonce == NonceB

Ok(v) == << "Ok", v >>

\* An OrchestratorError: its variant and what it carries.
ErrWith(kind, detail) == << "Err", [kind |-> kind, detail |-> detail] >>

Err(kind) == ErrWith(kind, << >>)

is_ok(r) == r[1] = "Ok"

\* "http://" and "https://"
HttpPrefix == << 104, 116, 116, 112, 58, 47, 47 >>

HttpsPrefix == << 104, 116, 116, 112, 115, 58, 47, 47 >>

starts_with(s, prefix) ==
    Len(s) >= Len(prefix) /\ SubSeq(s, 1, Len(prefix)) = prefix

RECURSIVE trim_end_matches(_, _)
trim_end_matches(s, ch) ==
    IF s # << >> /\ s[Len(s)] = ch THEN trim_end_matches(SubSeq(s, 1, Len(s) - 1), ch) ELSE s

\* The URLs given in attach mode: "http://b", "http://c/", "b" (no scheme).
UrlPlain == HttpPrefix \o << 98 >>

UrlSlash == HttpPrefix \o << 99, 47 >>

UrlNoScheme == << 98 >>

\* "https://b" and "http://c//"
UrlHttps == HttpsPrefix \o << 98 >>

UrlTwoSlashes == HttpPrefix \o << 99, 47, 47 >>

NoHandle == [state |-> "none", is_managed |-> FALSE, base_url |-> << >>, claim_nonce |-> None]

\* to_string of an unsigned integer (u16 port, u64 of serde_json): its
\* decimal text.
RECURSIVE itoa(_)
itoa(n) == IF n < 10 THEN << 48 + n >> ELSE itoa(n \div 10) \o << 48 + (n % 10) >>

\* "http://127.0.0.1:"
LocalPrefix == HttpPrefix \o << 49, 50, 55, 46, 48, 46, 48, 46, 49, 58 >>

\* NetworkConfig::default().base_port and u16::MAX
NetworkConfig_default_base_port == 9100

u16_MAX == 65535

\* a + b on u16: with overflow checks (the dev profile) a sum past u16::MAX
\* panics (None); without them (the release profile) it wraps.
add_u16(a, b, overflow_checks) ==
    IF a + b > u16_MAX /\ overflow_checks THEN None ELSE Some((a + b) % (u16_MAX + 1))

\* What a panic of the orchestrating task leaves to its caller.
Panic(kind) == << "Panic", [kind |-> kind, detail |-> << >>] >>

\* HarnessHandle::spawn_with_output, when the process was spawned.
spawn_with_output(port) ==
    [state |-> "live", is_managed |-> TRUE, base_url |-> LocalPrefix \o itoa(port),
     claim_nonce |-> None]

\* A faulty connect: the remote handle is marked as managed.
connect_managed(url, client_built) ==
    IF ~starts_with(url, HttpPrefix) /\ ~starts_with(url, HttpsPrefix)
    THEN Err("InvalidUrl")
    ELSE IF ~client_built THEN Err("SpawnError")
    ELSE Ok([state |-> "live", is_managed |-> TRUE, base_url |-> trim_end_matches(url, 47),
             claim_nonce |-> None])

\* A faulty connect: the URL is kept as it was given.
connect_keeps_slash(url, client_built) ==
    IF ~starts_with(url, HttpPrefix) /\ ~starts_with(url, HttpsPrefix)
    THEN Err("InvalidUrl")
    ELSE IF ~client_built THEN Err("SpawnError")
    ELSE Ok([state |-> "live", is_managed |-> FALSE, base_url |-> url, claim_nonce |-> None])

\* HarnessHandle::connect: the scheme is tested, the trailing slashes are
\* trimmed, and reqwest's builder makes the HTTP client; client_built says
\* whether the builder gave one, and when it did not connect returns
\* SpawnError.
connect(url, client_built) ==
    IF ~starts_with(url, HttpPrefix) /\ ~starts_with(url, HttpsPrefix)
    THEN Err("InvalidUrl")
    ELSE IF ~client_built THEN Err("SpawnError")
    ELSE Ok([state |-> "live", is_managed |-> FALSE, base_url |-> trim_end_matches(url, 47),
             claim_nonce |-> None])

\* A faulty handle: no request carries the claim header.
claim_header_never(hd) == None

\* The claim header a handle attaches: CLAIM_HEADER with the stored nonce.
claim_header(hd) == IF is_some(hd.claim_nonce) THEN Some(Utf8(unwrap(hd.claim_nonce))) ELSE None

\* How a request of the orchestrator fares on the wire.
Net == {"ok", "no_reply", "unreachable"}

\* The outcomes the wire allows towards harness h in its current state.
NetOf(h) == IF serving(h) THEN Net ELSE {"unreachable"}

\* The response the client reads: None on a transport error.
Received(net, ex) == IF net = "ok" /\ ex.status # NoResponse THEN Some(ex) ELSE None

\* health_check on the response read.
health_check(rx) ==
    IF ~is_some(rx) \/ ~is_some(unwrap(rx).body.status) THEN Err("HttpError")
    ELSE IF unwrap(rx).body.status = Some("healthy") THEN Ok("healthy")
    ELSE Err("HarnessError")

\* A faulty claim: the nonce is stored before the answer is looked at.
handle_claim_stores_first(hd, nonce, rx) ==
    IF ~is_some(rx) \/ ~is_some(unwrap(rx).body.success)
    THEN [claim_nonce |-> hd.claim_nonce, res |-> Err("HttpError")]
    ELSE IF unwrap(rx).body.success = Some(TRUE)
    THEN [claim_nonce |-> Some(nonce), res |-> Ok("claimed")]
    ELSE [claim_nonce |-> Some(nonce), res |-> Err("ClaimError")]

\* HarnessHandle::claim after the response: the new claim_nonce and the result.
handle_claim(hd, nonce, rx) ==
    IF ~is_some(rx) \/ ~is_some(unwrap(rx).body.success)
    THEN [claim_nonce |-> hd.claim_nonce, res |-> Err("HttpError")]
    ELSE IF unwrap(rx).body.success = Some(TRUE)
    THEN [claim_nonce |-> Some(nonce), res |-> Ok("claimed")]
    ELSE [claim_nonce |-> hd.claim_nonce, res |-> Err("ClaimError")]

\* HarnessHandle::list_benchmarks on the response read.
handle_list_benchmarks(rx) ==
    IF ~is_some(rx) \/ ~is_some(unwrap(rx).body.benchmarks) THEN Err("HttpError")
    ELSE Ok(unwrap(unwrap(rx).body.benchmarks))

\* A faulty run_iteration: a request that failed counts as a zero duration.
handle_run_iteration_lenient(rx) ==
    IF ~is_some(rx) \/ ~is_some(unwrap(rx).body.success)
           \/ ~is_some(unwrap(rx).body.duration_ns)
    THEN Ok(0)
    ELSE IF unwrap(rx).body.success = Some(TRUE)
    THEN Ok(unwrap(unwrap(rx).body.duration_ns))
    ELSE Ok(0)

\* HarnessHandle::run_iteration on the response read.
handle_run_iteration(rx) ==
    IF ~is_some(rx) \/ ~is_some(unwrap(rx).body.success)
           \/ ~is_some(unwrap(rx).body.duration_ns)
    THEN Err("HttpError")
    ELSE IF unwrap(rx).body.success = Some(TRUE)
    THEN Ok(unwrap(unwrap(rx).body.duration_ns))
    ELSE Err("HarnessError")

\* HarnessHandle::release: whether a /release request is sent (nonce taken).
release_sends(hd) == is_some(hd.claim_nonce)

\* HarnessHandle::release: Err only when the request was sent and the
\* transport failed; the status of the answer is not looked at.
handle_release(net) == IF net = "ok" THEN Ok("released") ELSE Err("HttpError")

\* A faulty Drop: a handle without the kill on drop.
drop_never_kills(hd) == FALSE

\* Drop for HarnessHandle: whether drop calls kill.
drop_kills(hd) == hd.state = "live" /\ hd.is_managed

\* HarnessHandle::kill: whether there is a child process to signal.
kill_signals(hd) == hd.state = "live" /\ hd.is_managed

-----------------------------------------------------------------------------
(* Sorting the benchmark lists *)

Rank(id) == IF id = "bench_a" THEN 1 ELSE 2

RECURSIVE Insert(_, _)
Insert(x, s) ==
    IF s = << >> THEN << x >>
    ELSE IF Rank(x) <= Rank(Head(s)) THEN << x >> \o s
    ELSE << Head(s) >> \o Insert(x, Tail(s))

RECURSIVE sort(_)
sort(s) == IF s = << >> THEN << >> ELSE Insert(Head(s), sort(Tail(s)))

\* A faulty validation: the lists are never compared.
benchmark_mismatch_never(b, c) == FALSE

\* baseline_sorted != candidate_sorted
benchmark_mismatch(b, c) == sort(b) # sort(c)

\* A faulty error: the sorted copies instead of the lists as returned.
mismatch_error_sorted(b, c) == ErrWith("BenchmarkMismatch", << sort(b), sort(c) >>)

\* OrchestratorError::BenchmarkMismatch { baseline, candidate } with the raw lists.
mismatch_error(b, c) == ErrWith("BenchmarkMismatch", << b, c >>)

BenchmarkSamples_new(name) ==
    [name |-> name, baseline_samples |-> << >>, candidate_samples |-> << >>]

-----------------------------------------------------------------------------
(* The statistical engine: WelchTTest over exact rationals *)

\* Greatest common divisor of two naturals.
RECURSIVE GCD(_, _)
GCD(a, b) == IF b = 0 THEN a ELSE GCD(b, a % b)

Abs(n) == IF n < 0 THEN -n ELSE n

\* An f64 of the computation, kept as the exact rational num / den in lowest
\* terms with den > 0: the sample values used stay far below 2^53, where
\* `as f64` is exact.
Rat(n, d) ==
    LET g == GCD(Abs(n), Abs(d))
        sgn == IF d < 0 THEN -1 ELSE 1
    IN [num |-> sgn * (n \div g), den |-> sgn * (d \div g)]

FromInt(n) == [num |-> n, den |-> 1]

RAdd(x, y) == Rat(x.num * y.den + y.num * x.den, x.den * y.den)

RSub(x, y) == Rat(x.num * y.den - y.num * x.den, x.den * y.den)

RMul(x, y) == Rat(x.num * y.num, x.den * y.den)

\* x / y for y # 0.
RDiv(x, y) == Rat(x.num * y.den, x.den * y.num)

RLt(x, y) == x.num * y.den < y.num * x.den

Zero == FromInt(0)

One == FromInt(1)

\* The sum of f(s[i]) over a sequence s of rationals.
RECURSIVE RSum(_)
RSum(s) == IF s = << >> THEN Zero ELSE RAdd(Head(s), RSum(Tail(s)))

\* impl Default for WelchTTest: 0.95
WelchTTest_default == Rat(95, 100)

\* WelchTTest::new: the assertion on the confidence level.
WelchTTest_new_panics(c) == ~(RLt(Zero, c) /\ RLt(c, One))

\* WelchTTest::mean_ns over durations in nanoseconds.
mean_ns(samples_) ==
    IF samples_ = << >> THEN Zero
    ELSE RDiv(RSum([i \in DOMAIN samples_ |-> FromInt(samples_[i])]), FromInt(Len(samples_)))

\* WelchTTest::variance_ns, with Bessel's correction.
variance_ns(samples_, mean) ==
    IF Len(samples_) < 2 THEN Zero
    ELSE LET diff(i) == RSub(FromInt(samples_[i]), mean) IN
         RDiv(RSum([i \in DOMAIN samples_ |-> RMul(diff(i), diff(i))]),
              FromInt(Len(samples_) - 1))

\* WelchTTest::welch_satterthwaite_df
welch_satterthwaite_df(var1, n1, var2, n2) ==
    LET s1 == RDiv(var1, FromInt(n1))
        s2 == RDiv(var2, FromInt(n2))
        numerator == RMul(RAdd(s1, s2), RAdd(s1, s2))
        denominator == RAdd(RDiv(RMul(s1, s1), FromInt(n1 - 1)),
                            RDiv(RMul(s2, s2), FromInt(n2 - 1)))
    IN IF denominator = Zero THEN FromInt(Min(n1, n2) - 1)
       ELSE RDiv(numerator, denominator)

\* p-values are kept up to this grid: a p-value other than 0 and 1 stands
\* for the interval between two neighbouring points that it lies in, by the
\* lower point, or by PValueBelow under the lowest point. The grid holds the
\* alpha of every confidence level used, so p < alpha is kept exactly.
PValueGrid == {Rat(1, 40), Rat(1, 20), Rat(1, 4), Rat(1, 2), Rat(3, 4)}

PValueBelow == Rat(1, 80)

RMax(S) == CHOOSE x \in S : \A y \in S : ~RLt(x, y)

\* The point that stands for the p-values under the grid point g.
PValueUnder(g) ==
    LET under == {x \in PValueGrid : RLt(x, g)} IN
    IF under = {} THEN PValueBelow ELSE RMax(under)

\* 2 * (1 - cdf(|t|)) for 2 degrees of freedom, where the distribution
\* function is 1/2 + t / (2 * sqrt(t^2 + 2)): the p-value is
\* 1 - sqrt(t^2 / (t^2 + 2)), which is 1 at t = 0 and is at least g when
\* t^2 / (t^2 + 2) <= (1 - g)^2. A p-value that is a grid point exactly
\* can come out of the floating-point computation on either side of it.
p_values_df2(t2) ==
    LET u == RDiv(t2, RAdd(t2, FromInt(2)))
        sq(g) == RMul(RSub(One, g), RSub(One, g))
        at_least == {g \in PValueGrid : ~RLt(sq(g), u)}
    IN IF t2 = Zero THEN {One}
       ELSE IF at_least = {} THEN {PValueBelow}
       ELSE IF sq(RMax(at_least)) = u THEN {RMax(at_least), PValueUnder(RMax(at_least))}
       ELSE {RMax(at_least)}

\* A faulty p-value: t = 0 is not told apart.
StudentsT_p_values_any(t2, df) == PValueGrid \cup {PValueBelow}

\* The two-tailed p-value of the t-distribution of statrs, which is not part
\* of this repository, for the square t2 of the t-statistic: StudentsT::new
\* fails for df <= 0 and the fallback is 1; the distribution is symmetric
\* about 0, so the p-value is 1 at t = 0; for 2 degrees of freedom it has a
\* closed form; for other degrees of freedom it is some value below 1: at
\* least that of the normal distribution, 0.317, when |t| <= 1, and down to
\* 0.0, which 1.0 - cdf gives in f64 when |t| is large, otherwise.
StudentsT_p_values(t2, df) ==
    IF ~RLt(Zero, df) THEN {One}
    ELSE IF t2 = Zero THEN {One}
    ELSE IF df = FromInt(2) THEN p_values_df2(t2)
    ELSE IF ~RLt(One, t2) THEN {g \in PValueGrid : ~RLt(g, Rat(1, 4))}
    ELSE PValueGrid \cup {PValueBelow, Zero}

\* A faulty effect size: the sign is reversed.
effect_size_of_reversed(mean1, mean2) ==
    IF mean1 # Zero THEN RMul(RDiv(RSub(mean2, mean1), mean1), FromInt(100)) ELSE Zero

\* A faulty effect size: relative to the candidate mean.
effect_size_of_by_candidate(mean1, mean2) ==
    IF mean2 # Zero THEN RMul(RDiv(RSub(mean1, mean2), mean2), FromInt(100)) ELSE Zero

\* The effect size of both the zero-variance and the regular branch.
effect_size_of(mean1, mean2) ==
    IF mean1 # Zero THEN RMul(RDiv(RSub(mean1, mean2), mean1), FromInt(100)) ELSE Zero

TestResult(p, significant, effect, c, winner, mean1, mean2) ==
    [p_value |-> p, statistically_significant |-> significant, effect_size |-> effect,
     confidence_level |-> c, winner |-> winner,
     baseline_mean_ns |-> mean1, candidate_mean_ns |-> mean2]

\* What analyze gives to the t-distribution for these inputs: the
\* t-statistic, here by its square, and the degrees of freedom.
t2_of(baseline, candidate) ==
    LET mean1 == mean_ns(baseline)
        mean2 == mean_ns(candidate)
        se2 == RAdd(RDiv(variance_ns(baseline, mean1), FromInt(Len(baseline))),
                    RDiv(variance_ns(candidate, mean2), FromInt(Len(candidate))))
    IN RDiv(RMul(RSub(mean1, mean2), RSub(mean1, mean2)), se2)

df_of(baseline, candidate) ==
    welch_satterthwaite_df(variance_ns(baseline, mean_ns(baseline)), Len(baseline),
                           variance_ns(candidate, mean_ns(candidate)), Len(candidate))

\* analyze reaches the t-distribution: both vectors have two elements or
\* more and the standard error is not zero.
reaches_t(baseline, candidate) ==
    /\ Len(baseline) >= 2 /\ Len(candidate) >= 2
    /\ \/ variance_ns(baseline, mean_ns(baseline)) # Zero
       \/ variance_ns(candidate, mean_ns(candidate)) # Zero

\* The p-values analyze can get from the t-distribution for these vectors;
\* the one value given when analyze does not reach it is not used.
p_values_of(baseline, candidate) ==
    IF reaches_t(baseline, candidate)
    THEN StudentsT_p_values(t2_of(baseline, candidate), df_of(baseline, candidate))
    ELSE {One}

\* A faulty edge case: only empty vectors count as insufficient.
insufficient_data_empty(n1, n2) == n1 < 1 \/ n2 < 1

\* analyze: the edge case of insufficient data.
insufficient_data(n1, n2) == n1 < 2 \/ n2 < 2

\* A faulty analyze: in the zero-variance branch the p-values are swapped.
analyze_zero_variance_swapped(c, baseline, candidate, p_t) ==
    LET n1 == Len(baseline)
        n2 == Len(candidate)
        mean1 == mean_ns(baseline)
        mean2 == mean_ns(candidate)
        var1 == variance_ns(baseline, mean1)
        var2 == variance_ns(candidate, mean2)
        se2 == RAdd(RDiv(var1, FromInt(n1)), RDiv(var2, FromInt(n2)))
        significant == RLt(p_t, RSub(One, c))
    IN IF insufficient_data(n1, n2)
       THEN TestResult(One, FALSE, Zero, c, None, mean1, mean2)
       ELSE IF se2 = Zero
       THEN TestResult(IF mean1 = mean2 THEN Zero ELSE One, mean1 # mean2,
                       effect_size_of(mean1, mean2), c,
                       IF RLt(mean2, mean1) THEN Some("Candidate")
                       ELSE IF RLt(mean1, mean2) THEN Some("Baseline") ELSE None,
                       mean1, mean2)
       ELSE TestResult(p_t, significant, effect_size_of(mean1, mean2), c,
                       IF significant
                       THEN IF RLt(mean2, mean1) THEN Some("Candidate") ELSE Some("Baseline")
                       ELSE None,
                       mean1, mean2)

\* WelchTTest::analyze with confidence level c; p_t is the p-value that the
\* t-distribution gives for the t-statistic. se2 is the square of se, which
\* is zero exactly when se is.
analyze(c, baseline, candidate, p_t) ==
    LET n1 == Len(baseline)
        n2 == Len(candidate)
        mean1 == mean_ns(baseline)
        mean2 == mean_ns(candidate)
        var1 == variance_ns(baseline, mean1)
        var2 == variance_ns(candidate, mean2)
        se2 == RAdd(RDiv(var1, FromInt(n1)), RDiv(var2, FromInt(n2)))
        significant == RLt(p_t, RSub(One, c))
    IN IF insufficient_data(n1, n2)
       THEN TestResult(One, FALSE, Zero, c, None, mean1, mean2)
       ELSE IF se2 = Zero
       THEN TestResult(IF mean1 = mean2 THEN One ELSE Zero, mean1 # mean2,
                       effect_size_of(mean1, mean2), c,
                       IF RLt(mean2, mean1) THEN Some("Candidate")
                       ELSE IF RLt(mean1, mean2) THEN Some("Baseline") ELSE None,
                       mean1, mean2)
       ELSE TestResult(p_t, significant, effect_size_of(mean1, mean2), c,
                       IF significant
                       THEN IF RLt(mean2, mean1) THEN Some("Candidate") ELSE Some("Baseline")
                       ELSE None,
                       mean1, mean2)


-----------------------------------------------------------------------------
(* The orchestrator: Orchestrator::run and run_with_urls, step by step *)

MaxWarmup == 1

MaxSamples == 2

MaxHealthAttempts == 2

\* The hex digit that fills the k-th nonce Uuid::new_v4 produces ('a', 'c', ...).
UuidDigit(k) == 97 + 2 * k

Other(h) == IF h = "baseline" THEN "candidate" ELSE "baseline"

\* Where an error of the health/claim/validate/sample phase goes: in spawn mode
\* run_with_harnesses returns it to run, which tears down; run_with_urls returns.
FailPc == IF mode = "spawn" THEN << "td_release", "baseline" >> ELSE << "drop", "-" >>

\* Where the end of sampling goes.
SuccessPc ==
    IF mode = "spawn" THEN << "td_release", "baseline" >> ELSE << "release", "baseline" >>

\* The exchange a request produced, if it reached the harness.
Seen(net, ex) == Received(net, IF net = "unreachable" THEN NoExchange ELSE ex)

\* Orchestrator::run: spawn the baseline harness.
SpawnBaseline ==
    /\ pc = << "spawn", "baseline" >>
    /\ \E spawned \in BOOLEAN :
          IF spawned
          THEN /\ handle' = [handle EXCEPT !["baseline"] = spawn_with_output(base_port)]
               /\ proc' = [proc EXCEPT !["baseline"] = "starting"]
               /\ pc' = << "spawn", "candidate" >>
               /\ UNCHANGED returned
          ELSE /\ returned' = Err("SpawnError")
               /\ pc' = << "returned", "-" >>
               /\ UNCHANGED <<handle, proc>>
    /\ UNCHANGED <<state_claim, state_shutdown_tx, registry, running, held, last>>
    /\ UNCHANGED <<config_vars, uuid_next, health_vars, sample_vars, result, trace>>

\* Orchestrator::run: spawn the candidate harness on base_port + 1; when the
\* sum panics or the spawn fails (`?`), the baseline handle is dropped.
SpawnCandidate ==
    /\ pc = << "spawn", "candidate" >>
    /\ \E spawned \in BOOLEAN, overflow_checks \in BOOLEAN :
          LET port == add_u16(base_port, 1, overflow_checks) IN
          IF is_some(port) /\ spawned
          THEN /\ handle' = [handle EXCEPT !["candidate"] = spawn_with_output(unwrap(port))]
               /\ proc' = [proc EXCEPT !["candidate"] = "starting"]
               /\ pc' = << "health", "baseline" >>
               /\ UNCHANGED <<returned, running, trace>>
          ELSE /\ returned' = IF is_some(port) THEN Err("SpawnError") ELSE Panic("Overflow")
               /\ pc' = << "returned", "-" >>
               /\ handle' = [handle EXCEPT !["baseline"].state = "dropped"]
               /\ IF drop_kills(handle["baseline"])
                  THEN /\ proc' = [proc EXCEPT !["baseline"] = "killed"]
                       /\ running' = [running EXCEPT !["baseline"] = EmptyBag]
                       /\ trace' = Append(trace, << "kill", "baseline" >>)
                  ELSE UNCHANGED <<proc, running, trace>>
    /\ UNCHANGED <<state_claim, state_shutdown_tx, registry, held, last>>
    /\ UNCHANGED <<config_vars, uuid_next, health_vars, sample_vars, result>>

\* run_with_urls: HarnessHandle::connect for both URLs, the candidate's only
\* when the baseline's gave a handle.
Connect ==
    /\ pc = << "connect", "-" >>
    /\ \E built_b \in BOOLEAN, built_c \in BOOLEAN :
          LET b == connect(urls["baseline"], built_b)
              c == connect(urls["candidate"], built_c)
          IN IF ~is_ok(b)
             THEN /\ returned' = b /\ pc' = << "returned", "-" >> /\ UNCHANGED handle
             ELSE IF ~is_ok(c)
             THEN /\ returned' = c /\ pc' = << "returned", "-" >>
                  /\ handle' = [handle EXCEPT
                                   !["baseline"] = [b[2] EXCEPT !.state = "dropped"]]
             ELSE /\ handle' = [baseline |-> b[2], candidate |-> c[2]]
                  /\ pc' = << "health", "baseline" >>
                  /\ UNCHANGED returned
    /\ UNCHANGED harness_vars
    /\ UNCHANGED <<config_vars, uuid_next, health_vars, sample_vars, result, trace>>

\* retry_interval, the unit of time of the model (100 ms).
retry_interval == 1

\* A faulty sleep: it returns at once.
sleep_returns_at_once(now, interval) == now

\* sleep(retry_interval).await: the time when the sleep is over.
sleep(now, interval) == now + interval

\* The times at which a health check that was started at time t can end. A
\* time past the timeout stands for every later time: the loop tells them
\* apart by `start.elapsed() < timeout` only.
CheckEnds(t) == {now \in t..MaxHealthAttempts : now <= timeout \/ now = t}

\* wait_for_health: one turn of the loop, a health check and what follows.
WaitForHealth(h) ==
    /\ pc = << "health", h >>
    /\ \E net \in NetOf(h) :
          /\ IF net = "unreachable" THEN UNCHANGED harness_vars ELSE GetHealth(Orch, h)
          /\ LET r == health_check(Seen(net, last')) IN
             IF is_ok(r)
             THEN /\ pc' = IF h = "baseline" THEN << "health", "candidate" >>
                                              ELSE << "claim", "baseline" >>
                  /\ elapsed' = 0
                  /\ last_error' = None
                  /\ healthy' = healthy \cup {h}
                  /\ health_error' = None
                  /\ UNCHANGED result
             ELSE \E now \in CheckEnds(elapsed) :
                    /\ health_error' = Some(net)
                    /\ IF now < timeout
                       THEN /\ last_error' = Some(net)
                            /\ elapsed' = sleep(now, retry_interval)
                            /\ UNCHANGED <<pc, result, healthy>>
                       ELSE /\ result' = ErrWith("TimeoutError",
                                                 << handle[h].base_url,
                                                    IF is_some(last_error)
                                                    THEN unwrap(last_error) ELSE net >>)
                            /\ pc' = FailPc
                            /\ elapsed' = now
                            /\ last_error' = None
                            /\ UNCHANGED healthy
    /\ UNCHANGED <<config_vars, handle, uuid_next, sample_vars, returned, trace>>

\* An entry of the request log: what was issued (or how a /run ended), to which
\* harness, for which benchmark, in which phase and round, and a value: the
\* nonce of a claim, the duration a /run returned.
Req(ev, h, id, ph, rnd, val, ok) ==
    [ev |-> ev, h |-> h, id |-> id, phase |-> ph, round |-> rnd, val |-> val, ok |-> ok]

\* HarnessHandle::claim as called by the orchestration.
ClaimStep(h) ==
    /\ pc = << "claim", h >>
    /\ LET nonce == Uuid(UuidDigit(uuid_next)) IN
       \E net \in NetOf(h) :
          /\ IF net = "unreachable" THEN UNCHANGED harness_vars ELSE PostClaim(Orch, h, nonce)
          /\ LET r == handle_claim(handle[h], nonce, Seen(net, last')) IN
             /\ handle' = [handle EXCEPT ![h].claim_nonce = r.claim_nonce]
             /\ IF is_ok(r.res)
                THEN /\ pc' = IF h = "baseline" THEN << "claim", "candidate" >>
                                                 ELSE << "list", "baseline" >>
                     /\ UNCHANGED result
                ELSE /\ result' = r.res
                     /\ pc' = FailPc
             /\ sent' = Append(sent, Req("claim", h, "", "-", 0, nonce, is_ok(r.res)))
    /\ uuid_next' = uuid_next + 1
    /\ UNCHANGED <<baseline_benchmarks, candidate_benchmarks, idx, phase, round, samples,
                   results>>
    /\ UNCHANGED <<config_vars, health_vars, returned, trace>>

\* HarnessHandle::list_benchmarks as called by the orchestration; after the
\* candidate's list, the comparison of the sorted lists.
ListStep(h) ==
    /\ pc = << "list", h >>
    /\ \E net \in NetOf(h) :
          /\ IF net = "unreachable" THEN UNCHANGED harness_vars
             ELSE GetBenchmarks(Orch, h, claim_header(handle[h]))
          /\ sent' = Append(sent, Req("benchmarks", h, "", "-", 0, << >>,
                                      is_ok(handle_list_benchmarks(Seen(net, last')))))
          /\ LET r == handle_list_benchmarks(Seen(net, last')) IN
             IF ~is_ok(r)
             THEN /\ result' = r /\ pc' = FailPc
                  /\ UNCHANGED <<baseline_benchmarks, candidate_benchmarks>>
             ELSE IF h = "baseline"
             THEN /\ baseline_benchmarks' = r[2]
                  /\ pc' = << "list", "candidate" >>
                  /\ UNCHANGED <<candidate_benchmarks, result>>
             ELSE /\ candidate_benchmarks' = r[2]
                  /\ UNCHANGED baseline_benchmarks
                  /\ IF benchmark_mismatch(baseline_benchmarks, r[2])
                     THEN /\ result' = mismatch_error(baseline_benchmarks, r[2])
                          /\ pc' = FailPc
                     ELSE /\ pc' = << "bench", "-" >>
                          /\ UNCHANGED result
    /\ UNCHANGED <<config_vars, handle, uuid_next, health_vars, idx, phase, round, samples,
                   results, returned, trace>>

\* A faulty round: the candidate is measured first.
FirstOfRound_candidate == << "run_send", "candidate" >>

\* A round starts with baseline.run_iteration.
FirstOfRound == << "run_send", "baseline" >>

\* The head of the for loop over baseline_benchmarks.
BenchHead ==
    /\ pc = << "bench", "-" >>
    /\ IF idx > Len(baseline_benchmarks)
       THEN /\ result' = Ok(results)
            /\ pc' = SuccessPc
            /\ UNCHANGED <<idx, phase, round, samples, results>>
       ELSE /\ samples' = BenchmarkSamples_new(baseline_benchmarks[idx])
            /\ round' = 0
            /\ UNCHANGED result
            /\ IF warmup_iterations > 0
               THEN /\ phase' = "warmup" /\ pc' = FirstOfRound
                    /\ UNCHANGED <<idx, results>>
               ELSE IF sample_size > 0
               THEN /\ phase' = "measure" /\ pc' = FirstOfRound
                    /\ UNCHANGED <<idx, results>>
               ELSE /\ results' = Append(results, samples')
                    /\ idx' = idx + 1
                    /\ UNCHANGED <<pc, phase>>
    /\ UNCHANGED harness_vars
    /\ UNCHANGED <<config_vars, handle, uuid_next, health_vars, baseline_benchmarks,
                   candidate_benchmarks, sent, returned, trace>>

\* The log entry of a /run of the current benchmark, phase and round.
RunReq(ev, h, val, ok) == Req(ev, h, baseline_benchmarks[idx], phase, round, val, ok)

\* The requests of the orchestrator that harness h admitted and has not
\* answered yet.
OrchRunning(h) == {r \in in_flight(h) : r.client = Orch}

\* A faulty round: the baseline's /run is not awaited before the candidate's
\* is sent.
RunSend_not_awaited(h) ==
    /\ pc = << "run_send", h >>
    /\ PostRun(Orch, h, claim_header(handle[h]), baseline_benchmarks[idx])
    /\ pc' = IF h = "baseline" THEN << "run_send", "candidate" >> ELSE << "run_wait", h >>
    /\ sent' = Append(sent, RunReq("run", h, << >>, TRUE))
    /\ UNCHANGED <<baseline_benchmarks, candidate_benchmarks, idx, phase, round, samples,
                   results>>
    /\ UNCHANGED <<config_vars, handle, uuid_next, health_vars, result, returned, trace>>

\* HarnessHandle::run_iteration: the request is sent and passes, or fails, the
\* harness's claim check.
RunSend(h) ==
    /\ pc = << "run_send", h >>
    /\ \E net \in NetOf(h) :
          /\ IF net = "unreachable" THEN UNCHANGED harness_vars
             ELSE PostRun(Orch, h, claim_header(handle[h]), baseline_benchmarks[idx])
          /\ IF net # "unreachable" /\ last'.admitted /\ net = "ok"
             THEN /\ pc' = << "run_wait", h >>
                  /\ sent' = Append(sent, RunReq("run", h, << >>, TRUE))
                  /\ UNCHANGED result
             ELSE /\ result' = handle_run_iteration(Seen(net, last'))
                  /\ pc' = FailPc
                  /\ sent' = sent \o << RunReq("run", h, << >>, TRUE),
                                        RunReq("run_end", h, << >>, FALSE) >>
    /\ UNCHANGED <<baseline_benchmarks, candidate_benchmarks, idx, phase, round, samples,
                   results>>
    /\ UNCHANGED <<config_vars, handle, uuid_next, health_vars, returned, trace>>

\* The durations the benchmark functions take in an orchestrated run: one per
\* harness, phase and round, all different, so that the place of a sample in
\* the vectors shows when it was taken.
RunDurations(h, ph, rnd) ==
    {(IF h = "baseline" THEN 10 ELSE 100) + (IF ph = "warmup" THEN 50 ELSE 0) + rnd}

\* What the benchmark function of an orchestrated /run may do: return after
\* one of these durations, or panic.
RunOutcomes(h, ph, rnd) ==
    {Returns(Duration_from_nanos(d)) : d \in RunDurations(h, ph, rnd)} \cup {Panics}

\* A faulty add: the newest sample is put first.
add_sample_first(sm, h, d) ==
    IF h = "baseline" THEN [sm EXCEPT !.baseline_samples = << d >> \o @]
    ELSE [sm EXCEPT !.candidate_samples = << d >> \o @]

\* A faulty add: every sample goes to the baseline vector.
add_sample_to_baseline(sm, h, d) == [sm EXCEPT !.baseline_samples = Append(@, d)]

\* The samples after a run of harness h returned duration d.
add_sample(sm, h, d) ==
    IF h = "baseline" THEN [sm EXCEPT !.baseline_samples = Append(@, d)]
    ELSE [sm EXCEPT !.candidate_samples = Append(@, d)]

\* HarnessHandle::run_iteration: the benchmark function returns, the response is
\* read; then the rest of the round of collect_benchmark_samples.
RunWait(h) ==
    /\ pc = << "run_wait", h >>
    /\ \E outcome \in RunOutcomes(h, phase, round), net \in {"ok", "no_reply"} :
          /\ \E req \in OrchRunning(h) : FinishRun(h, req, outcome)
          /\ LET r == handle_run_iteration(Seen(net, last'))
                 sm == IF phase = "measure" THEN add_sample(samples, h, r[2]) ELSE samples
             IN
             IF ~is_ok(r)
             THEN /\ result' = r /\ pc' = FailPc
                  /\ sent' = Append(sent, RunReq("run_end", h, << >>, FALSE))
                  /\ UNCHANGED <<idx, phase, round, samples, results>>
             ELSE /\ UNCHANGED result
                  /\ sent' = Append(sent, RunReq("run_end", h, << r[2] >>, TRUE))
                  /\ IF h = "baseline"
                     THEN /\ samples' = sm
                          /\ pc' = << "run_send", "candidate" >>
                          /\ UNCHANGED <<idx, phase, round, results>>
                     ELSE IF phase = "warmup" /\ round + 1 < warmup_iterations
                     THEN /\ round' = round + 1 /\ samples' = sm
                          /\ pc' = FirstOfRound
                          /\ UNCHANGED <<idx, phase, results>>
                     ELSE IF phase = "warmup" /\ sample_size > 0
                     THEN /\ phase' = "measure" /\ round' = 0 /\ samples' = sm
                          /\ pc' = FirstOfRound
                          /\ UNCHANGED <<idx, results>>
                     ELSE IF phase = "measure" /\ round + 1 < sample_size
                     THEN /\ round' = round + 1 /\ samples' = sm
                          /\ pc' = FirstOfRound
                          /\ UNCHANGED <<idx, phase, results>>
                     ELSE /\ results' = Append(results, sm)
                          /\ samples' = sm
                          /\ idx' = idx + 1
                          /\ pc' = << "bench", "-" >>
                          /\ UNCHANGED <<phase, round>>
    /\ UNCHANGED <<config_vars, handle, uuid_next, health_vars, baseline_benchmarks,
                   candidate_benchmarks, returned, trace>>

\* A faulty teardown: `<teardown call>?`, whose Err replaces the primary result.
teardown_masks(primary, r) == IF is_ok(r) THEN primary ELSE r

\* `let _ = <teardown call>`: the value the function will return stays the
\* primary result whatever the teardown call r returned.
ignore_result(primary, r) == primary

\* HarnessHandle::shutdown on the response read: Err unless a ShutdownResponse
\* could be decoded.
handle_shutdown(rx) ==
    IF ~is_some(rx) \/ ~is_some(unwrap(rx).body.status) THEN Err("HttpError")
    ELSE Ok("shutdown")

\* HarnessHandle::release: take the nonce and, if there was one, POST /release.
\* next_ok and next_err are where the caller goes on Ok and on Err; the caller
\* ignores the Err.
ReleaseCall(h, next_ok, next_err) ==
    /\ handle' = [handle EXCEPT ![h].claim_nonce = None]
    /\ IF release_sends(handle[h])
       THEN /\ \E net \in NetOf(h) :
                 /\ IF net = "unreachable" THEN UNCHANGED harness_vars
                    ELSE PostRelease(Orch, h, unwrap(handle[h].claim_nonce))
                 /\ pc' = IF is_ok(handle_release(net)) THEN next_ok ELSE next_err
                 /\ result' = ignore_result(result, handle_release(net))
            /\ trace' = Append(trace, << "release", h >>)
       ELSE /\ pc' = next_ok
            /\ UNCHANGED harness_vars
            /\ UNCHANGED <<trace, result>>

\* run_with_urls: let _ = baseline.release().await; let _ = candidate.release().await;
ReleaseStep(h) ==
    /\ pc = << "release", h >>
    /\ LET next == IF h = "baseline" THEN << "release", "candidate" >> ELSE << "drop", "-" >>
       IN ReleaseCall(h, next, next)
    /\ UNCHANGED <<config_vars, uuid_next, health_vars, sample_vars, returned>>

\* After handle.shutdown() of harness h in the teardown of Orchestrator::run.
AfterShutdown(h) ==
    IF h = "baseline" THEN << "td_release", "candidate" >> ELSE << "td_kill", "baseline" >>

\* A faulty HarnessHandle::shutdown: POST /shutdown without the release first.
TdRelease_skipped(h) ==
    /\ pc = << "td_release", h >>
    /\ pc' = << "td_shutdown", h >>
    /\ UNCHANGED harness_vars
    /\ UNCHANGED <<config_vars, handle, uuid_next, health_vars, sample_vars, result, returned,
                   trace>>

\* HarnessHandle::shutdown, first half: self.release().await?
TdRelease(h) ==
    /\ pc = << "td_release", h >>
    /\ ReleaseCall(h, << "td_shutdown", h >>, AfterShutdown(h))
    /\ UNCHANGED <<config_vars, uuid_next, health_vars, sample_vars, returned>>

\* HarnessHandle::shutdown, second half: POST /shutdown is sent and passes, or
\* fails, the harness's claim check; run ignores the result.
TdShutdown(h) ==
    /\ pc = << "td_shutdown", h >>
    /\ \E net \in NetOf(h) :
          /\ IF net = "unreachable" THEN UNCHANGED harness_vars
             ELSE PostShutdown(Orch, h, claim_header(handle[h]))
          /\ IF net # "unreachable" /\ last'.admitted /\ net = "ok"
             THEN /\ pc' = << "td_shutdown_wait", h >>
                  /\ UNCHANGED result
             ELSE /\ result' = ignore_result(result, handle_shutdown(Seen(net, last')))
                  /\ pc' = AfterShutdown(h)
    /\ trace' = Append(trace, << "shutdown", h >>)
    /\ UNCHANGED <<config_vars, handle, uuid_next, health_vars, sample_vars, returned>>

\* HarnessHandle::shutdown: the harness sends its signal, the response is read.
TdShutdownWait(h) ==
    /\ pc = << "td_shutdown_wait", h >>
    /\ \E net \in {"ok", "no_reply"} :
          /\ \E req \in OrchRunning(h) : FinishShutdown(h, req)
          /\ result' = ignore_result(result, handle_shutdown(Seen(net, last')))
    /\ pc' = AfterShutdown(h)
    /\ UNCHANGED <<config_vars, handle, uuid_next, health_vars, sample_vars, returned, trace>>

\* HarnessHandle::kill in the teardown of Orchestrator::run; the kill of the
\* baseline comes after the sleep of 100 ms that follows both shutdown calls.
TdKill(h) ==
    /\ pc = << "td_kill", h >>
    /\ IF kill_signals(handle[h])
       THEN /\ proc' = [proc EXCEPT ![h] = "killed"]
            /\ running' = [running EXCEPT ![h] = EmptyBag]
       ELSE UNCHANGED <<proc, running>>
    /\ pc' = IF h = "baseline" THEN << "td_kill", "candidate" >> ELSE << "drop", "-" >>
    /\ trace' = Append(trace, << "kill", h >>)
    /\ UNCHANGED <<state_claim, state_shutdown_tx, registry, held, last>>
    /\ UNCHANGED <<config_vars, handle, uuid_next, health_vars, sample_vars, result, returned>>

\* The handles that Drop kills, in drop order (candidate, then baseline).
DropKills == SelectSeq(<< "candidate", "baseline" >>, LAMBDA h : drop_kills(handle[h]))

\* The function returns its result; both handles go out of scope.
DropHandles ==
    /\ pc = << "drop", "-" >>
    /\ proc' = [h \in Harnesses |-> IF drop_kills(handle[h]) THEN "killed" ELSE proc[h]]
    /\ running' = [h \in Harnesses |-> IF drop_kills(handle[h]) THEN EmptyBag
                                         ELSE running[h]]
    /\ trace' = trace \o [i \in 1..Len(DropKills) |-> << "kill", DropKills[i] >>]
    /\ handle' = [h \in Harnesses |-> [handle[h] EXCEPT !.state = "dropped"]]
    /\ returned' = result
    /\ pc' = << "returned", "-" >>
    /\ UNCHANGED <<state_claim, state_shutdown_tx, registry, held, last>>
    /\ UNCHANGED <<config_vars, uuid_next, health_vars, sample_vars, result>>

\* Another orchestrator claims a harness it finds Unclaimed, with its own nonce,
\* and later releases it.
RivalClaim(h) ==
    /\ state_claim[h] = None
    /\ PostClaim(Rival, h, RivalNonce)
    /\ UNCHANGED orch_vars

RivalRelease(h) ==
    /\ state_claim[h] = Some(RivalNonce)
    /\ PostRelease(Rival, h, RivalNonce)
    /\ UNCHANGED orch_vars

\* The harness side of a run: processes start serving, or fail to, and stop
\* after /shutdown.
HarnessStep(h) ==
    /\ HarnessReady(h) \/ HarnessBindFails(h) \/ GracefulShutdown(h)
    /\ UNCHANGED orch_vars

\* A /run that the orchestrator gave up on (transport error after the request
\* was taken): the benchmark function ends and so does the handler, by itself,
\* whatever the orchestrator is doing meanwhile.
OrphanRun(h) ==
    /\ pc # << "run_wait", h >>
    /\ \E req \in OrchRunning(h), outcome \in RunOutcomes(h, phase, round) :
          FinishRun(h, req, outcome)
    /\ UNCHANGED orch_vars

\* A /shutdown that the orchestrator gave up on: the signal is sent all the same.
OrphanShutdown(h) ==
    /\ pc # << "td_shutdown_wait", h >>
    /\ \E req \in OrchRunning(h) : FinishShutdown(h, req)
    /\ UNCHANGED orch_vars

\* The registries the two harness binaries may have been built with.
Registries ==
    {[baseline |-> {"bench_a"}, candidate |-> {"bench_a"}],
     [baseline |-> {"bench_a"}, candidate |-> {"bench_b"}],
     [baseline |-> {"bench_a", "bench_b"}, candidate |-> {"bench_a"}],
     [baseline |-> {"bench_a", "bench_b"}, candidate |-> {"bench_a", "bench_b"}]}

\* The warmup_iterations and sample_size of the configurations explored.
Configs == {0, MaxWarmup} \X {0, MaxSamples}

\* The orchestrator before its first step.
OrchInit ==
    /\ handle = [h \in Harnesses |-> NoHandle]
    /\ uuid_next = 0
    /\ elapsed = 0
    /\ last_error = None
    /\ healthy = {}
    /\ health_error = None
    /\ baseline_benchmarks = << >>
    /\ candidate_benchmarks = << >>
    /\ idx = 1
    /\ phase = "-"
    /\ round = 0
    /\ samples = BenchmarkSamples_new("")
    /\ results = << >>
    /\ sent = << >>
    /\ result = None
    /\ returned = None
    /\ trace = << >>

(* Spawn mode: Orchestrator::run *)

InitRun ==
    /\ HarnessInit
    /\ proc = [h \in Harnesses |-> "none"]
    /\ registry \in Registries
    /\ mode = "spawn"
    /\ confidence_level = WelchTTest_default
    /\ timeout = MaxHealthAttempts
    /\ base_port = NetworkConfig_default_base_port
    /\ pc = << "spawn", "baseline" >>
    /\ urls = [h \in Harnesses |-> << >>]
    /\ \E cfg \in Configs : warmup_iterations = cfg[1] /\ sample_size = cfg[2]
    /\ OrchInit

NextRun ==
    \/ SpawnBaseline
    \/ SpawnCandidate
    \/ \E h \in Harnesses : WaitForHealth(h)
    \/ \E h \in Harnesses : ClaimStep(h)
    \/ \E h \in Harnesses : ListStep(h)
    \/ BenchHead
    \/ \E h \in Harnesses : RunSend(h)
    \/ \E h \in Harnesses : RunWait(h)
    \/ \E h \in Harnesses : OrphanRun(h)
    \/ \E h \in Harnesses : TdRelease(h)
    \/ \E h \in Harnesses : TdShutdown(h)
    \/ \E h \in Harnesses : TdShutdownWait(h)
    \/ \E h \in Harnesses : OrphanShutdown(h)
    \/ \E h \in Harnesses : TdKill(h)
    \/ DropHandles
    \/ \E h \in Harnesses : HarnessStep(h)
    \/ \E h \in Harnesses : RivalClaim(h)
    \/ \E h \in Harnesses : RivalRelease(h)

SpecRun == InitRun /\ [][NextRun]_vars

(* Spawn mode: the ports of the two harnesses, for every base port *)

BasePorts == 0..u16_MAX

InitPorts ==
    /\ HarnessInit
    /\ proc = [h \in Harnesses |-> "none"]
    /\ registry = [h \in Harnesses |-> {"bench_a"}]
    /\ mode = "spawn"
    /\ confidence_level = WelchTTest_default
    /\ timeout = MaxHealthAttempts
    /\ base_port \in BasePorts
    /\ pc = << "spawn", "baseline" >>
    /\ urls = [h \in Harnesses |-> << >>]
    /\ warmup_iterations = 0
    /\ sample_size = 0
    /\ OrchInit

\* The first two steps of Orchestrator::run.
NextPorts ==
    \/ SpawnBaseline
    \/ SpawnCandidate

SpecPorts == InitPorts /\ [][NextPorts]_vars

(* Attach mode: run_with_urls *)

InitUrls ==
    /\ HarnessInit
    /\ proc = [h \in Harnesses |-> "serving"]
    /\ registry \in Registries
    /\ mode = "attach"
    /\ confidence_level = WelchTTest_default
    /\ timeout = MaxHealthAttempts
    /\ base_port = NetworkConfig_default_base_port
    /\ pc = << "connect", "-" >>
    /\ urls \in {[baseline |-> UrlPlain, candidate |-> UrlSlash],
                  [baseline |-> UrlPlain, candidate |-> UrlNoScheme],
                  [baseline |-> UrlNoScheme, candidate |-> UrlSlash],
                  [baseline |-> UrlTwoSlashes, candidate |-> UrlHttps]}
    /\ \E cfg \in Configs : warmup_iterations = cfg[1] /\ sample_size = cfg[2]
    /\ OrchInit

NextUrls ==
    \/ Connect
    \/ \E h \in Harnesses : WaitForHealth(h)
    \/ \E h \in Harnesses : ClaimStep(h)
    \/ \E h \in Harnesses : ListStep(h)
    \/ BenchHead
    \/ \E h \in Harnesses : RunSend(h)
    \/ \E h \in Harnesses : RunWait(h)
    \/ \E h \in Harnesses : OrphanRun(h)
    \/ \E h \in Harnesses : ReleaseStep(h)
    \/ DropHandles
    \/ \E h \in Harnesses : RivalClaim(h)
    \/ \E h \in Harnesses : RivalRelease(h)

SpecUrls == InitUrls /\ [][NextUrls]_vars

(* Attach mode with any timeout, under the scheduling of the runtime *)

\* run_with_urls called with a timeout of zero or more retry intervals.
InitHealth ==
    /\ HarnessInit
    /\ proc = [h \in Harnesses |-> "serving"]
    /\ registry \in Registries
    /\ mode = "attach"
    /\ confidence_level = WelchTTest_default
    /\ timeout \in 0..MaxHealthAttempts
    /\ base_port = NetworkConfig_default_base_port
    /\ pc = << "connect", "-" >>
    /\ urls = [baseline |-> UrlPlain, candidate |-> UrlSlash]
    /\ \E cfg \in Configs : warmup_iterations = cfg[1] /\ sample_size = cfg[2]
    /\ OrchInit

\* The task that awaits wait_for_health is polled until the function returns:
\* each health request completes and each sleep comes to its end.
SpecHealth ==
    /\ InitHealth
    /\ [][NextUrls]_vars
    /\ \A h \in Harnesses : WF_vars(WaitForHealth(h))

(* Both modes of orchestration *)

InitOrch == InitRun \/ InitUrls

NextOrch ==
    \/ SpawnBaseline
    \/ SpawnCandidate
    \/ Connect
    \/ \E h \in Harnesses : WaitForHealth(h)
    \/ \E h \in Harnesses : ClaimStep(h)
    \/ \E h \in Harnesses : ListStep(h)
    \/ BenchHead
    \/ \E h \in Harnesses : RunSend(h)
    \/ \E h \in Harnesses : RunWait(h)
    \/ \E h \in Harnesses : OrphanRun(h)
    \/ \E h \in Harnesses : ReleaseStep(h)
    \/ \E h \in Harnesses : TdRelease(h)
    \/ \E h \in Harnesses : TdShutdown(h)
    \/ \E h \in Harnesses : TdShutdownWait(h)
    \/ \E h \in Harnesses : OrphanShutdown(h)
    \/ \E h \in Harnesses : TdKill(h)
    \/ DropHandles
    \/ \E h \in Harnesses : HarnessStep(h)
    \/ \E h \in Harnesses : RivalClaim(h)
    \/ \E h \in Harnesses : RivalRelease(h)

SpecOrch == InitOrch /\ [][NextOrch]_vars

(* Orchestration against harnesses that are restarted while attached to *)

\* In attach mode the harness behind a URL is a process that the orchestrator
\* did not start and does not own: it may end and a harness binary, with a
\* registry of its own, be started on the same address. run_harness then
\* begins with a fresh AppState: Unclaimed, no shutdown signal, nothing in
\* flight. A restart while a request of the orchestrator is in flight on h is
\* the lost connection that RunWait has as no_reply. The restarts followed
\* are those during the sampling; one before it is a run against the other
\* binary from the start.
HarnessRestart(h) ==
    /\ mode = "attach"
    /\ pc[1] \in {"run_send", "run_wait"}
    /\ proc[h] = "serving"
    /\ OrchRunning(h) = {}
    /\ \E built \in Registries : registry' = [registry EXCEPT ![h] = built[h]]
    /\ state_claim' = [state_claim EXCEPT ![h] = None]
    /\ state_shutdown_tx' = [state_shutdown_tx EXCEPT ![h] = FALSE]
    /\ running' = [running EXCEPT ![h] = EmptyBag]
    /\ held' = [held EXCEPT ![h] = {}]
    /\ UNCHANGED <<proc, last>>
    /\ UNCHANGED orch_vars

NextSampling ==
    \/ NextOrch
    \/ \E h \in Harnesses : HarnessRestart(h)

SpecSampling == InitOrch /\ [][NextSampling]_vars

(* The validation of the benchmark lists, on lists of any shape *)

MaxListLen == 3

\* The lists a /benchmarks response can carry: any order, repeats allowed.
BenchmarkLists ==
    UNION {[1..n -> BenchIds] : n \in 0..MaxListLen}

InitValidate ==
    /\ HarnessInit
    /\ proc = [h \in Harnesses |-> "serving"]
    /\ registry = [h \in Harnesses |-> {}]
    /\ mode = "validate"
    /\ confidence_level = WelchTTest_default
    /\ timeout = MaxHealthAttempts
    /\ base_port = NetworkConfig_default_base_port
    /\ pc = << "validate", "-" >>
    /\ urls = [h \in Harnesses |-> << >>]
    /\ warmup_iterations = 0
    /\ sample_size = 0
    /\ handle = [h \in Harnesses |-> NoHandle]
    /\ uuid_next = 0
    /\ elapsed = 0
    /\ last_error = None
    /\ healthy = {}
    /\ health_error = None
    /\ baseline_benchmarks \in BenchmarkLists
    /\ candidate_benchmarks \in BenchmarkLists
    /\ idx = 1
    /\ phase = "-"
    /\ round = 0
    /\ samples = BenchmarkSamples_new("")
    /\ results = << >>
    /\ sent = << >>
    /\ result = None
    /\ returned = None
    /\ trace = << >>

\* The comparison of the sorted lists and the error it may produce.
Validate ==
    /\ pc = << "validate", "-" >>
    /\ result' = IF benchmark_mismatch(baseline_benchmarks, candidate_benchmarks)
                 THEN mismatch_error(baseline_benchmarks, candidate_benchmarks)
                 ELSE Ok("validated")
    /\ pc' = << "validated", "-" >>
    /\ UNCHANGED harness_vars
    /\ UNCHANGED <<config_vars, handle, uuid_next, health_vars, baseline_benchmarks,
                   candidate_benchmarks, idx, phase, round, samples, results, sent, returned,
                   trace>>

NextValidate == Validate

SpecValidate == InitValidate /\ [][NextValidate]_vars

(* The statistical engine, on sample vectors of any shape *)

MaxVectorLen == 3

\* Small durations in nanoseconds, for vectors of any shape.
SmallDurations == {0, 1, 3}

\* Durations for constant vectors.
ConstantDurations == {1000, 2000, 10000}

\* Every vector of small durations up to the length bound.
SmallVectors == UNION {[1..n -> SmallDurations] : n \in 0..MaxVectorLen}

\* The constant vectors of at least two larger durations.
ConstantVectors == {[i \in 1..n |-> d] : n \in 2..MaxVectorLen, d \in ConstantDurations}

\* The pairs of sample vectors analyze is applied to.
SamplePairs == (SmallVectors \X SmallVectors) \cup (ConstantVectors \X ConstantVectors)

\* Confidence levels that WelchTTest::new accepts.
ConfidenceLevels == {c \in {Rat(1, 2), Rat(95, 100)} : ~WelchTTest_new_panics(c)}

InitStats ==
    /\ HarnessInit
    /\ proc = [h \in Harnesses |-> "serving"]
    /\ registry = [h \in Harnesses |-> {}]
    /\ mode = "stats"
    /\ confidence_level \in ConfidenceLevels
    /\ timeout = MaxHealthAttempts
    /\ base_port = NetworkConfig_default_base_port
    /\ pc = << "analyze", "-" >>
    /\ urls = [h \in Harnesses |-> << >>]
    /\ warmup_iterations = 0
    /\ sample_size = 0
    /\ handle = [h \in Harnesses |-> NoHandle]
    /\ uuid_next = 0
    /\ elapsed = 0
    /\ last_error = None
    /\ healthy = {}
    /\ health_error = None
    /\ baseline_benchmarks = << >>
    /\ candidate_benchmarks = << >>
    /\ idx = 1
    /\ phase = "-"
    /\ round = 0
    /\ \E pair \in SamplePairs :
          samples = [name |-> "bench_a", baseline_samples |-> pair[1],
                     candidate_samples |-> pair[2]]
    /\ results = << >>
    /\ sent = << >>
    /\ result = None
    /\ returned = None
    /\ trace = << >>

\* WelchTTest::new(confidence_level).analyze(baseline_samples, candidate_samples)
Analyze ==
    /\ pc = << "analyze", "-" >>
    /\ \E p_t \in p_values_of(samples.baseline_samples, samples.candidate_samples) :
          result' = Ok(analyze(confidence_level, samples.baseline_samples,
                               samples.candidate_samples, p_t))
    /\ pc' = << "analyzed", "-" >>
    /\ UNCHANGED harness_vars
    /\ UNCHANGED <<config_vars, handle, uuid_next, health_vars, sample_vars, returned, trace>>

NextStats == Analyze

(* main in manual mode: run_with_urls, then the analysis of its samples *)

\* The confidence levels of the config file or of --confidence-level: the
\* default, and 0 and 3/2, which are outside (0, 1).
MainConfidenceLevels == {WelchTTest_default, Zero, Rat(3, 2)}

InitMain ==
    /\ HarnessInit
    /\ proc = [h \in Harnesses |-> "serving"]
    /\ registry \in Registries
    /\ mode = "attach"
    /\ confidence_level \in MainConfidenceLevels
    /\ timeout = MaxHealthAttempts
    /\ base_port = NetworkConfig_default_base_port
    /\ pc = << "connect", "-" >>
    /\ urls = [baseline |-> UrlPlain, candidate |-> UrlSlash]
    /\ \E cfg \in Configs : warmup_iterations = cfg[1] /\ sample_size = cfg[2]
    /\ OrchInit

\* The p-values the t-distribution can give for each BenchmarkSamples.
p_values_of_all(all) ==
    {ps \in [1..Len(all) -> PValueGrid \cup {PValueBelow, Zero, One}] :
        \A i \in 1..Len(all) :
            ps[i] \in p_values_of(all[i].baseline_samples, all[i].candidate_samples)}

\* calculate_stats panics: for an empty vector n - 1 on usize is below zero,
\* which panics with overflow checks (the dev profile) and wraps, to no
\* panic, without them (the release profile).
calculate_stats_panics(durations, overflow_checks) == Len(durations) = 0 /\ overflow_checks

\* main after the samples came back: WelchTTest::new(confidence_level), which
\* panics on a level outside (0, 1); then, for each BenchmarkSamples, analyze
\* and calculate_stats of the two vectors, which panics on an empty one; then
\* the report, which fails when standard output cannot be written.
MainAnalyze ==
    /\ pc = << "returned", "-" >>
    /\ returned # None /\ is_ok(returned)
    /\ \E overflow_checks \in BOOLEAN, stdout_ok \in BOOLEAN :
          IF WelchTTest_new_panics(confidence_level)
          THEN /\ returned' = Panic("confidence_level")
               /\ UNCHANGED result
          ELSE IF \E i \in 1..Len(returned[2]) :
                     \/ calculate_stats_panics(returned[2][i].baseline_samples, overflow_checks)
                     \/ calculate_stats_panics(returned[2][i].candidate_samples, overflow_checks)
          THEN /\ returned' = Panic("calculate_stats")
               /\ UNCHANGED result
          ELSE /\ \E ps \in p_values_of_all(returned[2]) :
                     result' = IF stdout_ok
                               THEN Ok([i \in 1..Len(returned[2]) |->
                                          analyze(confidence_level,
                                                  returned[2][i].baseline_samples,
                                                  returned[2][i].candidate_samples, ps[i])])
                               ELSE Err("ReportError")
               /\ UNCHANGED returned
    /\ pc' = << "exit", "-" >>
    /\ UNCHANGED harness_vars
    /\ UNCHANGED <<config_vars, handle, uuid_next, health_vars, sample_vars, trace>>

NextMain ==
    \/ NextUrls
    \/ MainAnalyze

SpecMain == InitMain /\ [][NextMain]_vars

SpecStats == InitStats /\ [][NextStats]_vars

(* The wire format: serde_json over the protocol responses *)

MaxStringLen == 2

\* The characters of the strings put on the wire: '"', '\', line feed, tab,
\* U+0001, 'a' and 'n'.
JsonChars == {34, 92, 10, 9, 1, 97, 110}

WireStrings == UNION {[1..n -> JsonChars] : n \in 0..MaxStringLen}

\* A faulty escape: the backslash goes out as it is.
escape_char_keeps_backslash(ch) ==
    IF ch = 34 THEN << 92, 34 >>
    ELSE IF ch = 10 THEN << 92, 110 >>
    ELSE << ch >>

\* The lowercase hexadecimal digit of a value below 16, and back (-1: none).
hex_digit(v) == IF v < 10 THEN 48 + v ELSE 87 + v

hex_value(ch) ==
    IF ch >= 48 /\ ch <= 57 THEN ch - 48
    ELSE IF ch >= 97 /\ ch <= 102 THEN ch - 87
    ELSE IF ch >= 65 /\ ch <= 70 THEN ch - 55
    ELSE -1

\* serde_json: the text of one character inside a JSON string: '"', '\' and
\* the characters below U+0020 are escaped, the others go out as they are.
escape_char(ch) ==
    IF ch = 34 THEN << 92, 34 >>
    ELSE IF ch = 92 THEN << 92, 92 >>
    ELSE IF ch = 8 THEN << 92, 98 >>
    ELSE IF ch = 9 THEN << 92, 116 >>
    ELSE IF ch = 10 THEN << 92, 110 >>
    ELSE IF ch = 12 THEN << 92, 102 >>
    ELSE IF ch = 13 THEN << 92, 114 >>
    ELSE IF ch < 32 THEN << 92, 117, 48, 48, hex_digit(ch \div 16), hex_digit(ch % 16) >>
    ELSE << ch >>

\* serde_json: the text of a string, between its quotes.
RECURSIVE escape(_)
escape(str) == IF str = << >> THEN << >> ELSE escape_char(Head(str)) \o escape(Tail(str))

\* What the parser gives for a text that is not a JSON string.
ParseError == << -1 >>

\* The character of a one-letter escape (-1: not an escape).
simple_escape(ch) ==
    IF ch \in {34, 92, 47} THEN ch
    ELSE IF ch = 98 THEN 8
    ELSE IF ch = 102 THEN 12
    ELSE IF ch = 110 THEN 10
    ELSE IF ch = 114 THEN 13
    ELSE IF ch = 116 THEN 9
    ELSE -1

\* The value of the four hexadecimal digits of text from position at (-1
\* when they are not four hexadecimal digits).
hex4(text, at) ==
    IF Len(text) < at + 3 \/ \E i \in at..(at + 3) : hex_value(text[i]) = -1 THEN -1
    ELSE 4096 * hex_value(text[at]) + 256 * hex_value(text[at + 1])
         + 16 * hex_value(text[at + 2]) + hex_value(text[at + 3])

\* serde_json: the string that a text between quotes stands for. A raw
\* quote or a raw character below U+0020 is an error, and so is an escape
\* that is not one of \" \\ \/ \b \f \n \r \t \uXXXX, or a \uXXXX
\* that is half of a surrogate pair without its other half.
RECURSIVE unescape(_)
unescape(text) ==
    IF text = << >> THEN << >>
    ELSE IF Head(text) # 92
    THEN IF Head(text) = 34 \/ Head(text) < 32 THEN ParseError
         ELSE LET rest == unescape(Tail(text)) IN
              IF rest = ParseError THEN ParseError ELSE << Head(text) >> \o rest
    ELSE IF Len(text) < 2 THEN ParseError
    ELSE IF text[2] = 117
    THEN LET n == hex4(text, 3) IN
         IF n = -1 \/ (n >= 56320 /\ n <= 57343) THEN ParseError
         ELSE IF n >= 55296 /\ n <= 56319
         THEN LET m == IF Len(text) >= 8 /\ text[7] = 92 /\ text[8] = 117
                       THEN hex4(text, 9) ELSE -1
                  rest == unescape(SubSeq(text, 13, Len(text)))
              IN IF m < 56320 \/ m > 57343 \/ rest = ParseError THEN ParseError
                 ELSE << 65536 + 1024 * (n - 55296) + (m - 56320) >> \o rest
         ELSE LET rest == unescape(SubSeq(text, 7, Len(text))) IN
              IF rest = ParseError THEN ParseError ELSE << n >> \o rest
    ELSE IF simple_escape(text[2]) = -1 THEN ParseError
    ELSE LET rest == unescape(SubSeq(text, 3, Len(text))) IN
         IF rest = ParseError THEN ParseError ELSE << simple_escape(text[2]) >> \o rest

\* The text is one decimal digit or more.
IsDigits(text) == text # << >> /\ \A i \in DOMAIN text : text[i] >= 48 /\ text[i] <= 57

\* u64::MAX in decimal, 18446744073709551615.
u64_MAX_text ==
    << 49, 56, 52, 52, 54, 55, 52, 52, 48, 55, 51, 55, 48, 57, 53, 53, 49, 54, 49, 53 >>

\* a <= b for two texts of digits of the same length.
RECURSIVE digits_le(_, _)
digits_le(a, b) ==
    a = << >> \/ a[1] < b[1] \/ (a[1] = b[1] /\ digits_le(Tail(a), Tail(b)))

\* The number that a text of digits stands for.
RECURSIVE digits_value(_)
digits_value(text) ==
    IF text = << >> THEN 0
    ELSE 10 * digits_value(SubSeq(text, 1, Len(text) - 1)) + (text[Len(text)] - 48)

\* serde_json: the u64 that the text of a JSON number stands for, -1 when it
\* is refused: the text is not "0" or a digit from 1 to 9 followed by digits
\* (it is empty, has a sign, a leading zero, a fraction, an exponent or
\* another character), or the number is above u64::MAX.
atoi(text) ==
    IF ~IsDigits(text) \/ (text[1] = 48 /\ Len(text) > 1) THEN -1
    ELSE IF Len(text) > Len(u64_MAX_text) THEN -1
    ELSE IF Len(text) = Len(u64_MAX_text) /\ ~digits_le(text, u64_MAX_text) THEN -1
    ELSE digits_value(text)

\* A JSON value as the parser meets it: a string (text: what stands between
\* its quotes), a number (text: its characters), true, false, null, or an
\* array of values.
JsonValue(type, text, items) == [type |-> type, text |-> text, items |-> items]

JsonString(text) == JsonValue("string", text, << >>)

JsonNumber(text) == JsonValue("number", text, << >>)

JsonBool(b) == JsonValue(IF b THEN "true" ELSE "false", << >>, << >>)

JsonNull == JsonValue("null", << >>, << >>)

JsonArray(items) == JsonValue("array", << >>, items)

\* A member of a JSON object: its key and its value. A document is the
\* sequence of the members of its object.
Member(key, value) == [key |-> key, value |-> value]

Keys(json) == {json[i].key : i \in DOMAIN json}

\* How many members have the key, and the value of the one that has it.
Count(json, key) == Cardinality({i \in DOMAIN json : json[i].key = key})

Get(json, key) == json[CHOOSE i \in DOMAIN json : json[i].key = key].value

\* serde_json skipping a string: a raw quote or control character and an
\* unknown escape are errors; \uXXXX needs its four hexadecimal digits,
\* whatever code they give.
RECURSIVE ignore_str(_)
ignore_str(text) ==
    IF text = << >> THEN TRUE
    ELSE IF Head(text) # 92 THEN Head(text) # 34 /\ Head(text) >= 32 /\ ignore_str(Tail(text))
    ELSE IF Len(text) < 2 THEN FALSE
    ELSE IF text[2] = 117 THEN hex4(text, 3) # -1 /\ ignore_str(SubSeq(text, 7, Len(text)))
    ELSE simple_escape(text[2]) # -1 /\ ignore_str(SubSeq(text, 3, Len(text)))

\* The parts of a JSON number after its sign: the integer, the fraction and
\* the exponent.
IsInt(text) == IsDigits(text) /\ (text[1] = 48 => Len(text) = 1)

IsFrac(text) == text = << >> \/ (text[1] = 46 /\ IsDigits(Tail(text)))

IsExp(text) ==
    \/ text = << >>
    \/ /\ text[1] \in {69, 101}
       /\ LET rest == Tail(text) IN
          IsDigits(IF rest # << >> /\ rest[1] \in {43, 45} THEN Tail(rest) ELSE rest)

\* serde_json skipping a number: the text follows the grammar of JSON.
ignore_number(text) ==
    LET body == IF text # << >> /\ text[1] = 45 THEN Tail(text) ELSE text IN
    \E i \in 1..Len(body) : \E j \in i..Len(body) :
        /\ IsInt(SubSeq(body, 1, i))
        /\ IsFrac(SubSeq(body, i + 1, j))
        /\ IsExp(SubSeq(body, j + 1, Len(body)))

\* serde_json skipping the value of a member that the struct does not have.
RECURSIVE ignore_value(_)
ignore_value(v) ==
    IF v.type = "string" THEN ignore_str(v.text)
    ELSE IF v.type = "number" THEN ignore_number(v.text)
    ELSE IF v.type = "array" THEN \A i \in DOMAIN v.items : ignore_value(v.items[i])
    ELSE TRUE

\* Deserialize of String, u64, bool, Option<String> and Vec<String> from a
\* value: Some of what it stands for, None when the value is refused (it has
\* another type or its text is in error). null is the None of an Option.
parse_string(v) ==
    IF v.type = "string" /\ unescape(v.text) # ParseError THEN Some(unescape(v.text)) ELSE None

parse_u64(v) == IF v.type = "number" /\ atoi(v.text) # -1 THEN Some(atoi(v.text)) ELSE None

parse_bool(v) == IF v.type \in {"true", "false"} THEN Some(v.type = "true") ELSE None

parse_option_string(v) ==
    IF v.type = "null" THEN Some(None)
    ELSE IF parse_string(v) = None THEN None
    ELSE Some(parse_string(v))

parse_vec_string(v) ==
    IF v.type = "array" /\ \A i \in DOMAIN v.items : parse_string(v.items[i]) # None
    THEN Some([i \in DOMAIN v.items |-> unwrap(parse_string(v.items[i]))])
    ELSE None

\* Serialize for the response structs: the members in field order; the
\* error of a RunIterationResponse is skipped when it is None.
to_json(kind, body) ==
    IF kind \in {"health", "shutdown"}
    THEN << Member("status", JsonString(escape(unwrap(body.status)))) >>
    ELSE IF kind = "benchmarks"
    THEN << Member("benchmarks",
                   JsonArray([i \in DOMAIN unwrap(body.benchmarks) |->
                                 JsonString(escape(unwrap(body.benchmarks)[i]))])) >>
    ELSE << Member("duration_ns", JsonNumber(itoa(unwrap(body.duration_ns)))),
            Member("success", JsonBool(unwrap(body.success))) >>
         \o (IF is_some(body.error)
             THEN << Member("error", JsonString(escape(unwrap(body.error)))) >>
             ELSE << >>)

\* The fields of the response structs.
FieldsOf(kind) ==
    IF kind \in {"health", "shutdown"} THEN {"status"}
    ELSE IF kind = "benchmarks" THEN {"benchmarks"}
    ELSE {"duration_ns", "success", "error"}

\* What from_str gives for a document it refuses.
JsonError == Err("JsonError")

\* Deserialize for the response structs, from the object of the document:
\* a field given twice is an error, and so is a field that is missing,
\* unless it is an Option, which is then None, or whose value is refused; a
\* member that is no field is skipped, its value being only checked for its
\* form.
from_json(kind, json) ==
    LET field(key, parse(_)) ==
            IF Count(json, key) = 1 THEN parse(Get(json, key)) ELSE None
        status == field("status", parse_string)
        benchmarks == field("benchmarks", parse_vec_string)
        duration_ns == field("duration_ns", parse_u64)
        success == field("success", parse_bool)
        error == IF Count(json, "error") = 0 THEN Some(None)
                 ELSE field("error", parse_option_string)
    IN IF \/ \E key \in FieldsOf(kind) : Count(json, key) > 1
          \/ \E i \in DOMAIN json : json[i].key \notin FieldsOf(kind) /\ ~ignore_value(json[i].value)
       THEN JsonError
       ELSE IF kind \in {"health", "shutdown"}
       THEN IF status = None THEN JsonError ELSE Ok([Body EXCEPT !.status = status])
       ELSE IF kind = "benchmarks"
       THEN IF benchmarks = None THEN JsonError
            ELSE Ok([Body EXCEPT !.benchmarks = benchmarks])
       ELSE IF duration_ns = None \/ success = None \/ error = None THEN JsonError
       ELSE Ok([Body EXCEPT !.duration_ns = duration_ns, !.success = success,
                            !.error = unwrap(error)])

\* The response values put on the wire, each with the struct it belongs to.
WireValues ==
    {<< "health", [Body EXCEPT !.status = Some(str)] >> : str \in WireStrings}
      \cup {<< "shutdown", [Body EXCEPT !.status = Some(str)] >> : str \in WireStrings}
      \cup {<< "benchmarks", [Body EXCEPT !.benchmarks = Some(list)] >> :
               list \in UNION {[1..n -> WireStrings] : n \in 0..1}}
      \cup {<< "run", [Body EXCEPT !.duration_ns = Some(d), !.success = Some(ok), !.error = e] >> :
               d \in {0, 1000, 12345}, ok \in BOOLEAN,
               e \in {None} \cup {Some(str) : str \in WireStrings}}

InitWire ==
    /\ state_claim = [h \in Harnesses |-> None]
    /\ state_shutdown_tx = [h \in Harnesses |-> FALSE]
    /\ running = [h \in Harnesses |-> EmptyBag]
    /\ held = [h \in Harnesses |-> {}]
    /\ \E v \in WireValues : last = [NoExchange EXCEPT !.kind = v[1], !.body = v[2]]
    /\ proc = [h \in Harnesses |-> "serving"]
    /\ registry = [h \in Harnesses |-> {}]
    /\ mode = "wire"
    /\ confidence_level = WelchTTest_default
    /\ timeout = MaxHealthAttempts
    /\ base_port = NetworkConfig_default_base_port
    /\ pc = << "wire", "-" >>
    /\ urls = [h \in Harnesses |-> << >>]
    /\ warmup_iterations = 0
    /\ sample_size = 0
    /\ OrchInit

\* serde_json::to_string and serde_json::from_str on the response.
Roundtrip ==
    /\ pc = << "wire", "-" >>
    /\ result' = Ok([json |-> to_json(last.kind, last.body),
                     back |-> from_json(last.kind, to_json(last.kind, last.body))])
    /\ pc' = << "wired", "-" >>
    /\ UNCHANGED harness_vars
    /\ UNCHANGED <<config_vars, handle, uuid_next, health_vars, sample_vars, returned, trace>>

NextWire == Roundtrip

SpecWire == InitWire /\ [][NextWire]_vars

(* The harness alone, driven by raw HTTP clients *)

\* The harness the raw-protocol specification exercises.
RawHarness == "baseline"

Init ==
    /\ HarnessInit
    /\ proc = [h \in Harnesses |-> "serving"]
    /\ registry = [h \in Harnesses |-> {"bench_a"}]
    /\ mode = "raw"
    /\ confidence_level = WelchTTest_default
    /\ timeout = MaxHealthAttempts
    /\ base_port = NetworkConfig_default_base_port
    /\ pc = << "raw", "-" >>
    /\ urls = [h \in Harnesses |-> << >>]
    /\ warmup_iterations = 0
    /\ sample_size = 0
    /\ OrchInit

Next ==
    \/ \E c \in Clients : GetHealth(c, RawHarness) /\ UNCHANGED orch_vars
    \/ \E c \in Clients, header \in Headers :
          GetBenchmarks(c, RawHarness, header) /\ UNCHANGED orch_vars
    \/ \E c \in Clients, header \in Headers, id \in BenchIds :
          PostRun(c, RawHarness, header, id) /\ UNCHANGED orch_vars
    \/ \E req \in in_flight(RawHarness), outcome \in Outcomes :
          FinishRun(RawHarness, req, outcome) /\ UNCHANGED orch_vars
    \/ \E c \in Clients, header \in Headers :
          PostShutdown(c, RawHarness, header) /\ UNCHANGED orch_vars
    \/ \E req \in in_flight(RawHarness) :
          FinishShutdown(RawHarness, req) /\ UNCHANGED orch_vars
    \/ \E c \in Clients : \E nonce \in NoncesOf(c) :
          PostClaim(c, RawHarness, nonce) /\ UNCHANGED orch_vars
    \/ \E c \in Clients : \E nonce \in NoncesOf(c) :
          PostRelease(c, RawHarness, nonce) /\ UNCHANGED orch_vars
    \/ GracefulShutdown(RawHarness) /\ UNCHANGED orch_vars

Spec == Init /\ [][Next]_vars

\* The harness alone under the scheduling of its runtime: the task that waits
\* on the watch channel is polled, and a benchmark function that was called
\* comes to an end, as does a shutdown handler that passed check_claim.
SpecShutdown ==
    /\ Init
    /\ [][Next]_vars
    /\ WF_vars(GracefulShutdown(RawHarness) /\ UNCHANGED orch_vars)
    /\ WF_vars(\E req \in in_flight(RawHarness), outcome \in Outcomes :
                  FinishRun(RawHarness, req, outcome) /\ UNCHANGED orch_vars)
    /\ WF_vars(\E req \in in_flight(RawHarness) :
                  FinishShutdown(RawHarness, req) /\ UNCHANGED orch_vars)

-----------------------------------------------------------------------------
(* Properties of the harness claim protocol (specification Spec) *)

\* The header of the last exchange is absent or differs from the prior nonce.
HeaderMismatch == last.header = None \/ unwrap(last.header) # Utf8(unwrap(last.pre))

\* C1: mutual exclusion on /run: under Claimed(n), for every n including the
\* empty string, a POST /run without the claim header or with a header value
\* other than n is answered 403 and is not let through to the benchmark function.
C1_RunMutualExclusion ==
    (last.kind = "run" /\ is_some(last.pre) /\ HeaderMismatch)
        => (last.status = 403 /\ ~last.admitted)

\* C2: exclusivity: two orchestrators that use different nonces never both hold
\* a granted, not yet released claim on the same harness, and the holder is the
\* client whose nonce the harness stores.
C2_Exclusive ==
    \A h \in Harnesses :
        /\ Cardinality(held[h]) <= 1
        /\ \A c \in held[h] : is_some(state_claim[h]) /\ unwrap(state_claim[h]) \in NoncesOf(c)

\* Witness of C2: the rival holds the harness and the orchestrator has just
\* asked for it.
C2_Witness ==
    /\ held[RawHarness] = {"rival"}
    /\ last.kind = "claim" /\ last.client = "orch" /\ last.h = RawHarness

\* C3: claim conflict: under Claimed(n), POST /claim with m # n is answered 409
\* with success=false and an "already claimed" error, and the harness stays
\* Claimed(n) with its holder; so of two claimants with different nonces the
\* first is granted and the second gets 409.
C3_ClaimConflict ==
    (last.kind = "claim" /\ is_some(last.pre) /\ unwrap(last.pre) # unwrap(last.nonce))
        => /\ last.status = 409
           /\ last.body.success = Some(FALSE)
           /\ last.body.error = Some("already claimed")
           /\ state_claim[last.h] = last.pre
           /\ held[last.h] # {}

\* Witness of C3: the orchestrator was granted the claim first, the rival's
\* claim with another nonce was then answered 409.
C3_Witness ==
    /\ last.kind = "claim" /\ last.client = "rival" /\ last.status = 409
    /\ last.pre = Some(NonceA) /\ held[last.h] = {"orch"}

\* C4: claim acquisition is idempotent: for every nonce string n, POST /claim{n}
\* under Unclaimed and under Claimed(n) is answered 200 success=true and leaves
\* the harness Claimed(n).
C4_ClaimIdempotent ==
    (last.kind = "claim" /\ (last.pre = None \/ last.pre = last.nonce))
        => /\ last.status = 200
           /\ last.body.success = Some(TRUE)
           /\ state_claim[last.h] = last.nonce

\* C5: release succeeds exactly for the holder: POST /release{x} is answered 200
\* success=true and leaves the harness Unclaimed iff it was Claimed(x);
\* otherwise it is answered 400 success=false and the claim state is unchanged.
C5_ReleaseByHolder ==
    last.kind = "release"
        => IF last.pre = last.nonce
           THEN /\ last.status = 200 /\ last.body.success = Some(TRUE)
                /\ state_claim[last.h] = None
           ELSE /\ last.status = 400 /\ last.body.success = Some(FALSE)
                /\ state_claim[last.h] = last.pre

\* Witness of C5: a release with another nonce than the holder's was refused.
C5_Witness ==
    /\ last.kind = "release" /\ last.status = 400
    /\ is_some(last.pre) /\ last.pre # last.nonce
    /\ state_claim[last.h] = last.pre

\* The last request got through the claim check: a /benchmarks answered 200, a
\* /shutdown let through to its send.
GatePassed == IF last.kind = "shutdown" THEN last.admitted ELSE last.status = 200

\* C6: gating of /benchmarks and /shutdown: unclaimed, they succeed with or
\* without a header; under Claimed(n) they succeed only if the header is exactly
\* n and are otherwise answered 403, and a rejected /shutdown does not signal
\* shutdown.
C6_Gating ==
    last.kind \in {"benchmarks", "shutdown"}
        => IF last.pre = None
           THEN GatePassed
           ELSE /\ GatePassed <=> ~HeaderMismatch
                /\ ~GatePassed
                      => (last.status = 403 /\ state_shutdown_tx[last.h] = last.pre_tx)

-----------------------------------------------------------------------------
(* Teardown of the orchestrator *)

\* Orchestrator::run or run_with_urls has returned.
Returned == pc = << "returned", "-" >>

\* The teardown requests and kills issued so far.
Issued == {trace[i] : i \in DOMAIN trace}

\* C7: after Orchestrator::run returns, with Ok or with any Err, a force-kill
\* has been issued to every child process it spawned and none is still alive.
C7_ManagedChildrenKilled ==
    (mode = "spawn" /\ Returned)
        => \A h \in Harnesses :
              proc[h] # "none" => (<< "kill", h >> \in Issued /\ ~alive(h))

\* run returned SpawnError for the candidate after the baseline was spawned,
\* and the baseline child was killed.
C7_Witness ==
    /\ mode = "spawn" /\ Returned
    /\ returned = Err("SpawnError")
    /\ proc["baseline"] = "killed" /\ proc["candidate"] = "none"

\* C8: on every return path of run_with_urls, every claim a handle acquired
\* has been released before the function returns.
C8_AttachReleasesOnEveryExit ==
    (mode = "attach" /\ Returned)
        => \A h \in Harnesses : ~is_some(handle[h].claim_nonce) /\ Orch \notin held[h]

\* C9: in the teardown of Orchestrator::run both claims are released before
\* the first /shutdown request to either harness, and every force-kill comes
\* after both /shutdown attempts.
C9_ReleaseBothThenShutdown ==
    \A i, j \in DOMAIN trace :
        /\ (trace[i][1] = "release" /\ trace[j][1] = "shutdown") => i < j
        /\ (trace[i][1] = "shutdown" /\ trace[j][1] = "kill") => i < j

\* The place of a teardown request in the order the code issues them.
TeardownRank(ev) ==
    IF ev = << "release", "baseline" >> THEN 1
    ELSE IF ev = << "shutdown", "baseline" >> THEN 2
    ELSE IF ev = << "release", "candidate" >> THEN 3
    ELSE IF ev = << "shutdown", "candidate" >> THEN 4
    ELSE 5

\* C9 (amended): in the teardown of Orchestrator::run each harness has its
\* claim released (the handle's nonce taken) before the /shutdown request to
\* that same harness: the requests come in the order baseline release,
\* baseline /shutdown, candidate release, candidate /shutdown, each at most
\* once, and every force-kill comes after all of them.
C9_ReleaseThenShutdownPerHarness ==
    /\ \A i, j \in DOMAIN trace :
          i < j => \/ TeardownRank(trace[i]) < TeardownRank(trace[j])
                   \/ (trace[i][1] = "kill" /\ trace[j][1] = "kill")
    /\ \A h \in Harnesses :
          << "shutdown", h >> \in Issued => ~is_some(handle[h].claim_nonce)

\* run returned after a teardown that released and shut down both harnesses
\* and then killed both.
C9_Witness ==
    /\ mode = "spawn" /\ Returned
    /\ Len(trace) >= 6
    /\ SubSeq(trace, 1, 6) = << << "release", "baseline" >>, << "shutdown", "baseline" >>,
                                 << "release", "candidate" >>, << "shutdown", "candidate" >>,
                                 << "kill", "baseline" >>, << "kill", "candidate" >> >>

\* The run is in the teardown of Orchestrator::run: at a release, at the send
\* of a /shutdown or the read of its response, at a kill, or at the return.
InTeardown ==
    /\ mode = "spawn"
    /\ pc[1] \in {"td_release", "td_shutdown", "td_shutdown_wait", "td_kill", "drop"}

\* C10: Orchestrator::run returns exactly the result of the health, claim,
\* validate and sample phase: no teardown step changes it, whatever the step's
\* own outcome; and a failed teardown step on the baseline does not keep the
\* candidate from being released and killed.
C10_TeardownKeepsPrimaryOutcome ==
    /\ [][InTeardown => result' = result]_vars
    /\ []((mode = "spawn" /\ Returned /\ handle["candidate"].state # "none")
             => /\ returned = result
                /\ ~is_some(handle["candidate"].claim_nonce)
                /\ << "kill", "candidate" >> \in Issued)

\* run returned Ok although the release of the baseline failed in teardown (so
\* its /shutdown was skipped); the candidate was still released and shut down,
\* and the response to its /shutdown was read by the teardown.
C10_Witness ==
    /\ mode = "spawn" /\ Returned /\ is_ok(returned)
    /\ << "release", "baseline" >> \in Issued
    /\ << "shutdown", "baseline" >> \notin Issued
    /\ << "release", "candidate" >> \in Issued
    /\ << "shutdown", "candidate" >> \in Issued
    /\ last.kind = "shutdown_done" /\ last.h = "candidate" /\ last.client = Orch

-----------------------------------------------------------------------------
(* Sampling *)

\* The orchestration returned Ok with its vector of BenchmarkSamples.
ReturnedOk == Returned /\ is_ok(returned)

\* C11: whenever orchestration returns Ok, in spawn mode or attach mode, there
\* is one BenchmarkSamples per benchmark of the baseline list, and its baseline
\* vector and its candidate vector both have length exactly sample_size.
C11_EqualSampleVectors ==
    ReturnedOk =>
        /\ Len(returned[2]) = Len(baseline_benchmarks)
        /\ \A i \in DOMAIN returned[2] :
              /\ returned[2][i].name = baseline_benchmarks[i]
              /\ Len(returned[2][i].baseline_samples) = sample_size
              /\ Len(returned[2][i].candidate_samples) = sample_size

\* Ok was returned for two benchmarks sampled with warmup rounds and
\* measurement rounds.
C11_Witness ==
    /\ ReturnedOk
    /\ Len(returned[2]) = 2
    /\ warmup_iterations = MaxWarmup /\ sample_size = MaxSamples

\* The /run requests issued and their ends, in order.
RunLog == SelectSeq(sent, LAMBDA e : e.ev \in {"run", "run_end"})

\* Two log entries are about the same round of the same benchmark and phase.
SameRound(e, f) == e.id = f.id /\ e.phase = f.phase /\ e.round = f.round

\* C12: within sampling, /run requests are issued and completed one at a time
\* in the order baseline, candidate, baseline, ...: each request ends before
\* the next is issued, the k-th baseline /run ends before the k-th candidate
\* /run of the same round is issued, and a round (warmup or measurement)
\* always starts with the baseline.
C12_InterleavingOrder ==
    \A k \in DOMAIN RunLog :
        /\ RunLog[k].ev = IF k % 2 = 1 THEN "run" ELSE "run_end"
        /\ RunLog[k].h = IF (k - 1) % 4 < 2 THEN "baseline" ELSE "candidate"
        /\ k % 2 = 0 => (RunLog[k].h = RunLog[k - 1].h /\ SameRound(RunLog[k], RunLog[k - 1]))
        /\ k % 4 = 3 => (RunLog[k - 1].ok /\ SameRound(RunLog[k], RunLog[k - 2]))
        /\ (k % 4 = 1 /\ k > 1) => (RunLog[k - 1].ok /\ ~SameRound(RunLog[k], RunLog[k - 1]))

\* A warmup round and two measurement rounds of one benchmark have completed.
C12_Witness ==
    /\ Len(RunLog) >= 12
    /\ RunLog[1].phase = "warmup" /\ RunLog[5].phase = "measure"
    /\ RunLog[12].phase = "measure" /\ RunLog[12].round = 1 /\ RunLog[12].ok

\* The orchestrator gave up on its last /run (transport error).
LastRunFailed == RunLog # << >> /\ ~RunLog[Len(RunLog)].ok

\* The /run and the /shutdown requests among them.
OrchRuns(h) == {r \in OrchRunning(h) : r.kind = "run"}

OrchShutdowns(h) == {r \in OrchRunning(h) : r.kind = "shutdown"}

\* C13: the orchestrator never has a /run in flight on the baseline and on the
\* candidate at the same time; a /run of its own is in flight on a harness only
\* while it awaits that very request (or after it gave the request up on a
\* transport error, its last request of the sampling), and while it awaits a
\* /run it issues nothing else; a /shutdown of its own is in flight on a
\* harness only after it was sent in the teardown, once per harness, and it
\* is there while the orchestrator awaits its response.
C13_SingleOutstandingRequest ==
    /\ OrchRuns("baseline") = {} \/ OrchRuns("candidate") = {}
    /\ \A h \in Harnesses :
          /\ InFlightCount(h, LAMBDA r : r \in OrchRuns(h)) <= 1
          /\ InFlightCount(h, LAMBDA r : r \in OrchShutdowns(h)) <= 1
          /\ OrchRuns(h) # {} => (pc = << "run_wait", h >> \/ LastRunFailed)
          /\ OrchShutdowns(h) # {}
                => \E i \in 1..Len(trace) : trace[i] = << "shutdown", h >>
          /\ pc = << "run_wait", h >>
                => /\ InFlightCount(h, LAMBDA r : r.client = Orch) = 1
                   /\ \A r \in OrchRunning(h) :
                         r.kind = "run" /\ r.id = baseline_benchmarks[idx]
                   /\ RunLog[Len(RunLog)] = RunReq("run", h, << >>, TRUE)
          /\ pc = << "td_shutdown_wait", h >> => OrchShutdowns(h) # {}

\* The candidate's /run of a measurement round is in flight, the baseline's of
\* the same round has ended.
C13_Witness ==
    /\ pc = << "run_wait", "candidate" >>
    /\ phase = "measure"
    /\ OrchRunning("candidate") # {} /\ OrchRunning("baseline") = {}
    /\ RunLog[Len(RunLog) - 1].h = "baseline" /\ RunLog[Len(RunLog) - 1].ev = "run_end"

\* The log entries of kind ev about harness h and benchmark id, in order.
RunsOf(ev, h, id) == SelectSeq(sent, LAMBDA e : e.ev = ev /\ e.h = h /\ e.id = id)

\* The sample vector of harness h in a BenchmarkSamples.
SamplesOf(bs, h) == IF h = "baseline" THEN bs.baseline_samples ELSE bs.candidate_samples

\* C14: on a successful run the orchestrator issued, for each benchmark, exactly
\* warmup_iterations + sample_size /run requests to each harness; the first
\* warmup_iterations are warmup, their durations are in no vector, and the
\* durations of the last sample_size are that harness's vector, in the order
\* they were drawn.
C14_WarmupThenMeasurement ==
    ReturnedOk =>
        \A i \in DOMAIN returned[2] : \A h \in Harnesses :
            LET id == returned[2][i].name
                ends == RunsOf("run_end", h, id)
            IN /\ Len(RunsOf("run", h, id)) = warmup_iterations + sample_size
               /\ Len(ends) = warmup_iterations + sample_size
               /\ \A k \in DOMAIN ends :
                     ends[k].ok /\ ends[k].phase = IF k <= warmup_iterations THEN "warmup"
                                                                            ELSE "measure"
               /\ SamplesOf(returned[2][i], h) =
                     [k \in 1..sample_size |-> ends[warmup_iterations + k].val[1]]

\* Ok was returned for one benchmark with a warmup round and measurement
\* rounds whose durations differ.
C14_Witness ==
    /\ ReturnedOk
    /\ Len(returned[2]) = 1
    /\ warmup_iterations > 0 /\ sample_size > 1
    /\ returned[2][1].candidate_samples[1] # returned[2][1].candidate_samples[2]

-----------------------------------------------------------------------------
(* Validation of the benchmark sets *)

\* The set of identifiers in a list.
IdSet(list) == {list[i] : i \in DOMAIN list}

\* C15: for every pair of benchmark lists, in any order and with or without
\* repeated identifiers, validation passes if and only if the two lists
\* contain the same set of identifiers.
C15_ValidationComparesSets ==
    pc = << "validated", "-" >>
        => (is_ok(result) <=> IdSet(baseline_benchmarks) = IdSet(candidate_benchmarks))

\* The orchestrator has read the /benchmarks response of harness h.
Listed(h) == \E i \in DOMAIN sent : sent[i] = Req("benchmarks", h, "", "-", 0, << >>, TRUE)

\* The last thing the orchestrator did was to read the /benchmarks response
\* that is the last exchange.
JustListed ==
    /\ last.kind = "benchmarks" /\ last.client = Orch /\ last.status = 200
    /\ sent # << >>
    /\ sent[Len(sent)] = Req("benchmarks", last.h, "", "-", 0, << >>, TRUE)

\* C16: when the benchmark sets of the baseline and the candidate differ, the
\* outcome is BenchmarkMismatch carrying both lists exactly as the harnesses
\* returned them, that is what is returned, and no /run request has been sent
\* to either harness.
C16_MismatchAbortsBeforeSampling ==
    /\ JustListed =>
          (IF last.h = "baseline" THEN baseline_benchmarks ELSE candidate_benchmarks)
              = unwrap(last.body.benchmarks)
    /\ (Listed("baseline") /\ Listed("candidate")
           /\ IdSet(baseline_benchmarks) # IdSet(candidate_benchmarks))
          => /\ result = ErrWith("BenchmarkMismatch",
                                  << baseline_benchmarks, candidate_benchmarks >>)
             /\ Returned => returned = result
             /\ RunLog = << >>
             /\ \A h \in Harnesses : OrchRuns(h) = {}

\* BenchmarkMismatch was returned with a baseline list that is not in sorted
\* order.
C16_Witness ==
    /\ Returned
    /\ returned = ErrWith("BenchmarkMismatch", << << "bench_b", "bench_a" >>, << "bench_a" >> >>)

\* C17: if a /run request fails (no usable response, or success = false), it
\* is the last /run the orchestrator sends: no further /run goes to either
\* harness and the failed one is not repeated; the outcome is an Err, which
\* carries no sample vectors, and that Err is what is returned.
C17_NoRetryOfSampling ==
    \A k \in DOMAIN RunLog :
        ~RunLog[k].ok
            => /\ k = Len(RunLog)
               /\ RunLog[k].ev = "run_end"
               /\ result # None
               /\ result[1] = "Err"
               /\ result[2].kind \in {"HttpError", "HarnessError"}
               /\ Returned => returned = result

\* A candidate /run of the second measurement round was answered with
\* success = false (404, the benchmark is not in the registry of the harness
\* that answered) after samples had been collected, and HarnessError was
\* returned.
C17_Witness ==
    /\ Returned
    /\ LastRunFailed
    /\ RunLog[Len(RunLog)].h = "candidate"
    /\ RunLog[Len(RunLog)].phase = "measure" /\ RunLog[Len(RunLog)].round = 1
    /\ Len(samples.baseline_samples) = 2
    /\ last.kind = "run_done" /\ last.h = "candidate" /\ last.client = Orch
    /\ last.status = 404 /\ last.body.success = Some(FALSE)
    /\ returned = Err("HarnessError")

-----------------------------------------------------------------------------
(* Attach mode leaves the harness processes alone *)

\* C18: on every path of run_with_urls no /shutdown request is sent to either
\* harness and no process is killed: both harnesses keep serving, also after
\* the handles were dropped.
C18_RemoteNeverShutDown ==
    mode = "attach"
        => /\ \A h \in Harnesses : proc[h] = "serving" /\ ~state_shutdown_tx[h]
           /\ \A i \in DOMAIN trace : trace[i][1] \notin {"shutdown", "kill"}
           /\ last.kind \notin {"shutdown", "shutdown_done"}

\* run_with_urls returned Ok, both claims were released, the handles are
\* dropped and both harnesses still serve.
C18_Witness ==
    /\ mode = "attach" /\ ReturnedOk
    /\ \A h \in Harnesses : handle[h].state = "dropped" /\ proc[h] = "serving"
    /\ trace = << << "release", "baseline" >>, << "release", "candidate" >> >>

-----------------------------------------------------------------------------
(* The claim step of the orchestrator *)

\* The /claim requests the orchestrator issued, in order.
ClaimLog == SelectSeq(sent, LAMBDA e : e.ev = "claim")

\* The last thing the orchestrator did was a /claim that is the last exchange.
JustClaimed ==
    /\ last.kind = "claim" /\ last.client = Orch
    /\ sent # << >>
    /\ sent[Len(sent)].ev = "claim" /\ sent[Len(sent)].h = last.h
    /\ last.nonce = Some(sent[Len(sent)].val)

\* C19: every claim() call sends a nonce no earlier call sent; a harness is
\* claimed at most once (no retry); a claim that fails is the last request of
\* the health/claim/validate/sample phase (no /benchmarks, /run or further
\* /claim follows), leaves the handle's nonce as it was, and makes the outcome
\* an Err that is returned: ClaimError when the harness answered 409.
C19_ClaimStepFailure ==
    /\ \A i, j \in DOMAIN ClaimLog :
          i < j => (ClaimLog[i].val # ClaimLog[j].val /\ ClaimLog[i].h # ClaimLog[j].h)
    /\ \A k \in DOMAIN sent :
          (sent[k].ev = "claim" /\ ~sent[k].ok)
              => /\ k = Len(sent)
                 /\ ~is_some(handle[sent[k].h].claim_nonce)
                 /\ result # None
                 /\ result \in {Err("ClaimError"), Err("HttpError")}
                 /\ Returned => returned = result
    /\ (JustClaimed /\ result = Err("ClaimError"))
          => (last.status = 409 /\ last.body.success = Some(FALSE))
    /\ (JustClaimed /\ last.status = 409) => (result # None /\ result[1] = "Err")

\* The baseline was claimed, the candidate answered 409 because the other
\* orchestrator holds it, and ClaimError was returned.
C19_Witness ==
    /\ Returned /\ returned = Err("ClaimError")
    /\ Len(ClaimLog) = 2
    /\ ClaimLog[1].ok /\ ClaimLog[1].h = "baseline"
    /\ ~ClaimLog[2].ok /\ ClaimLog[2].h = "candidate"
    /\ Len(sent) = 2

\* The orchestrator's claim of harness h succeeded with this nonce.
ClaimedWith(h, nonce) == \E i \in DOMAIN ClaimLog : ClaimLog[i] = Req("claim", h, "", "-", 0, nonce, TRUE)

\* The last exchange is a request of kind k sent through the orchestrator's
\* handle of a harness it had claimed.
LastSentAfterClaim(kinds) ==
    /\ last.client = Orch /\ last.kind \in kinds
    /\ \E nonce \in {Uuid(UuidDigit(k)) : k \in 0..1} : ClaimedWith(last.h, nonce)

\* C20: after a successful claim() on a handle, every /run, /benchmarks and
\* /shutdown request sent through that handle carries the claim header with
\* the nonce that claim stored.
C20_ClaimHeaderEcho ==
    LastSentAfterClaim({"run", "benchmarks", "shutdown"})
        => \E nonce \in {Uuid(UuidDigit(k)) : k \in 0..1} :
              ClaimedWith(last.h, nonce) /\ last.header = Some(Utf8(nonce))

\* C20 (amended): after a successful claim() on a handle, every /run and
\* /benchmarks request sent through that handle carries the claim header with
\* the nonce that claim stored; a /shutdown request is sent only after
\* release() has taken the stored nonce, and carries no claim header.
C20_ClaimHeaderEchoUntilRelease ==
    /\ LastSentAfterClaim({"run", "benchmarks"})
          => \E nonce \in {Uuid(UuidDigit(k)) : k \in 0..1} :
                ClaimedWith(last.h, nonce) /\ last.header = Some(Utf8(nonce))
    /\ (last.client = Orch /\ last.kind = "shutdown")
          => (last.header = None /\ ~is_some(handle[last.h].claim_nonce))

\* A /run of the candidate was admitted with the header that carries the nonce
\* of the candidate's claim.
C20_Witness ==
    /\ LastSentAfterClaim({"run"})
    /\ last.h = "candidate"
    /\ last.header = Some(Utf8(Uuid(UuidDigit(1))))
    /\ last.admitted

-----------------------------------------------------------------------------
(* The order of the protocol phases *)

\* Entry k of the request log comes after a successful entry of kind ev for
\* harness h.
After(k, ev, h) == \E i \in 1..(k - 1) : sent[i].ev = ev /\ sent[i].h = h /\ sent[i].ok

\* A release request has been issued.
Releasing == \E h \in Harnesses : << "release", h >> \in Issued

\* C21: no /claim is sent to a harness before wait_for_health succeeded for
\* it; no /benchmarks or /run is sent before the claims on both harnesses
\* succeeded; no /run is sent before both lists were fetched and found equal
\* when sorted; and once a release has been issued no /claim, /benchmarks or
\* /run follows.
C21_PhaseOrder ==
    /\ [](\A k \in DOMAIN sent :
            /\ sent[k].ev = "claim" => sent[k].h \in healthy
            /\ sent[k].ev \in {"benchmarks", "run"}
                  => \A h \in Harnesses : After(k, "claim", h)
            /\ sent[k].ev = "run"
                  => /\ \A h \in Harnesses : After(k, "benchmarks", h)
                     /\ sort(baseline_benchmarks) = sort(candidate_benchmarks))
    /\ [][Releasing => sent' = sent]_vars

\* Both claims were released after two measurement rounds.
C21_Witness ==
    /\ << "release", "baseline" >> \in Issued /\ << "release", "candidate" >> \in Issued
    /\ Len(RunLog) >= 8
    /\ healthy = Harnesses

-----------------------------------------------------------------------------
(* The readiness wait *)

\* wait_for_health returned TimeoutError.
TimedOut == result # None /\ ~is_ok(result) /\ result[2].kind = "TimeoutError"

\* C22: when wait_for_health gave up with TimeoutError, the error carries
\* the base URL of a handle and the error of the most recent failed health
\* check, whatever the errors of the earlier attempts were.
C22_TimeoutCarriesLastError ==
    TimedOut =>
        /\ \E h \in Harnesses : result[2].detail[1] = handle[h].base_url
        /\ result[2].detail[2] = unwrap(health_error)

-----------------------------------------------------------------------------
(* POST /run past the claim check (specification Spec) *)

\* The last exchange is the answer to an admitted POST /run.
RunDone == last.kind = "run_done"

\* The step answers an admitted POST /run for an id the registry lacks.
AnswersUnknown ==
    /\ running' # running
    /\ last'.kind = "run_done"
    /\ last'.id \notin registry[last'.h]

\* C23: an admitted POST /run whose benchmark_id is not in the registry is
\* answered 404 with success=false, duration_ns=0 and an error message that
\* contains the requested id; no benchmark function is called, and the step
\* leaves the claim state and the registry as they were.
C23_UnknownBenchmark ==
    /\ [](RunDone /\ last.id \notin registry[last.h]
            => /\ last.status = 404
               /\ last.body.success = Some(FALSE)
               /\ last.body.duration_ns = Some(0)
               /\ is_some(last.body.error)
               /\ \E i \in DOMAIN unwrap(last.body.error) : unwrap(last.body.error)[i] = last.id
               /\ ~last.invoked
               /\ last.calls = << >>)
    /\ [][AnswersUnknown => state_claim' = state_claim /\ registry' = registry]_vars

\* The holder of the claim was answered for an id the registry lacks.
C23_Witness ==
    /\ RunDone
    /\ last.id = "bench_b"
    /\ last.id \notin registry[last.h]
    /\ is_some(last.pre)
    /\ last.client \in held[last.h]

\* C24: an admitted POST /run for a registered id calls the benchmark
\* function exactly once and, when the function returns, is answered 200 with
\* success=true, no error field, and duration_ns equal to the duration the
\* function returned, in nanoseconds.
C24_SuccessfulRun ==
    RunDone /\ last.id \in registry[last.h]
        => /\ Len(last.calls) = 1
           /\ ~last.calls[1].panicked
                 => /\ last.status = 200
                    /\ last.body.success = Some(TRUE)
                    /\ last.body.error = None
                    /\ is_some(last.body.duration_ns)
                    /\ Duration_from_nanos(unwrap(last.body.duration_ns))
                          = last.calls[1].duration

\* C25: when the benchmark function called for a POST /run panics, the
\* request is answered 200 with success=false and an error message, and the
\* claim state is the one before the request.
C25_PanicContained ==
    RunDone /\ last.calls # << >> /\ last.calls[1].panicked
        => /\ last.status = 200
           /\ last.body.success = Some(FALSE)
           /\ is_some(last.body.error)
           /\ state_claim[last.h] = last.pre

-----------------------------------------------------------------------------
(* The shutdown latch (specification SpecShutdown) *)

\* The last exchange is a POST /shutdown whose header passes the claim check
\* against the claim it found.
ShutdownPassed == last.kind = "shutdown" /\ check_claim(last.pre, last.header)

\* The handler of an admitted POST /shutdown has not sent its signal yet.
ShutdownInFlight == \E r \in in_flight(RawHarness) : r.kind = "shutdown"

\* C26: a POST /shutdown that passes the claim check is let through, and is
\* then answered 200 with status "shutting_down" and sets the watch value,
\* also when the value was already set; no step of a /shutdown changes the
\* claim; the value is never reset; once it is set the accept loop eventually
\* stops and the harness exits when the requests in flight have been
\* answered; and once the accept loop has stopped no new request is taken:
\* only requests taken before are still answered.
C26_ShutdownLatch ==
    /\ [](ShutdownPassed => last.admitted)
    /\ [](last.kind = "shutdown_done"
            => /\ last.status = 200
               /\ last.body = ShutdownResponse_acknowledged
               /\ state_shutdown_tx[last.h])
    /\ ShutdownInFlight ~> state_shutdown_tx[RawHarness]
    /\ [][last' # last /\ last'.kind \in {"shutdown", "shutdown_done"}
            => state_claim' = state_claim]_vars
    /\ [][\A h \in Harnesses : state_shutdown_tx[h] => state_shutdown_tx'[h]]_vars
    /\ [][proc[RawHarness] = "stopped"
            => /\ proc'[RawHarness] = "stopped"
               /\ last' = last \/ last'.kind \in {"run_done", "shutdown_done"}
               /\ running'[RawHarness] \sqsubseteq running[RawHarness]
               /\ last' # last => running'[RawHarness] # running[RawHarness]]_vars
    /\ state_shutdown_tx[RawHarness] ~> ~alive(RawHarness)

\* A second /shutdown was acknowledged when the watch value was already set,
\* and the harness has exited.
C26_Witness ==
    /\ last.kind = "shutdown_done" /\ last.status = 200
    /\ last.pre_tx
    /\ ~alive(last.h)

-----------------------------------------------------------------------------
(* Properties of the statistical engine (specification SpecStats) *)

\* analyze has returned.
Analyzed == pc = << "analyzed", "-" >>

\* The TestResult that analyze returned.
Res == result[2]

\* C27: for every confidence level and every pair of vectors, a winner
\* implies that the result is significant, a significant result has
\* p_value < 1 - confidence_level, and a result that is not significant has
\* no winner.
C27_VerdictConsistency ==
    Analyzed =>
        /\ is_some(Res.winner) => Res.statistically_significant
        /\ Res.statistically_significant
              => RLt(Res.p_value, RSub(One, Res.confidence_level))
        /\ ~Res.statistically_significant => Res.winner = None

\* Vectors with a t-statistic of -8 at 2 degrees of freedom (p = 0.0153)
\* gave a significant result with a winner at confidence level 0.95.
C27_Witness ==
    /\ Analyzed
    /\ is_some(Res.winner)
    /\ Res.p_value = PValueBelow
    /\ Res.confidence_level = Rat(95, 100)
    /\ samples.baseline_samples = << 0, 0, 1 >>
    /\ samples.candidate_samples = << 3, 3 >>

\* The means of the two vectors analyze was applied to.
Mean1 == mean_ns(samples.baseline_samples)

Mean2 == mean_ns(samples.candidate_samples)

\* Both vectors have at least two elements.
TwoEach == Len(samples.baseline_samples) >= 2 /\ Len(samples.candidate_samples) >= 2

\* The winner, when there is one, is the side with the strictly smaller mean.
WinnerIsFaster ==
    /\ Res.winner = Some("Candidate") => RLt(Mean2, Mean1)
    /\ Res.winner = Some("Baseline") => RLt(Mean1, Mean2)

\* C28: a winner is the side with the strictly smaller mean; the effect
\* size is positive exactly when the candidate mean is lower than a
\* non-zero baseline mean, and it is 0 when the baseline mean is 0.
C28_WinnerDirection ==
    Analyzed =>
        /\ WinnerIsFaster
        /\ RLt(Zero, Res.effect_size) <=> (Mean1 # Zero /\ RLt(Mean2, Mean1))
        /\ Mean1 = Zero => Res.effect_size = Zero

\* C28 as it holds: a winner is the side with the strictly smaller mean;
\* when both vectors have at least two elements the effect size is
\* positive exactly when the candidate mean is lower than a non-zero
\* baseline mean, and 0 when the baseline mean is 0; when a vector has
\* fewer than two elements the effect size is 0 whatever the means are.
C28_WinnerDirectionTwoEach ==
    Analyzed =>
        /\ WinnerIsFaster
        /\ TwoEach
              => /\ RLt(Zero, Res.effect_size) <=> (Mean1 # Zero /\ RLt(Mean2, Mean1))
                 /\ Mean1 = Zero => Res.effect_size = Zero
        /\ ~TwoEach => Res.effect_size = Zero

\* The baseline won at 2 degrees of freedom with a negative effect size.
C28_Witness ==
    /\ Analyzed
    /\ Res.winner = Some("Baseline")
    /\ RLt(Res.effect_size, Zero)
    /\ samples.baseline_samples = << 0, 0, 1 >>
    /\ samples.candidate_samples = << 3, 3, 3 >>

\* C29: for vectors of equal length n >= 2 that are element-wise equal,
\* analyze returns effect_size 0, not significant, no winner and p_value 1.
C29_IdenticalSamples ==
    Analyzed /\ TwoEach /\ samples.baseline_samples = samples.candidate_samples
        => /\ Res.effect_size = Zero
           /\ ~Res.statistically_significant
           /\ Res.winner = None
           /\ Res.p_value = One

\* Equal vectors that are not constant: analyze went through the
\* t-distribution.
C29_Witness ==
    /\ Analyzed
    /\ samples.baseline_samples = << 0, 1, 3 >>
    /\ samples.candidate_samples = << 0, 1, 3 >>
    /\ Res.p_value = One

\* Vector v is constant, with at least two elements.
IsConstant(v) == Len(v) >= 2 /\ \A i \in DOMAIN v : v[i] = v[1]

\* Both vectors are constant and their values differ.
ConstantUnequal ==
    /\ IsConstant(samples.baseline_samples)
    /\ IsConstant(samples.candidate_samples)
    /\ samples.baseline_samples[1] # samples.candidate_samples[1]

\* p_value 0, significant, and the winner is the side with the smaller value.
ZeroVarianceVerdict ==
    /\ Res.p_value = Zero
    /\ Res.statistically_significant
    /\ Res.winner = IF samples.candidate_samples[1] < samples.baseline_samples[1]
                     THEN Some("Candidate") ELSE Some("Baseline")

\* C30: for constant vectors of length >= 2 with baseline value b and
\* candidate value c, b # c, analyze returns p_value 0, significant, the
\* side with the smaller value as winner, and effect_size = 100 (b - c) / b,
\* at every confidence level.
C30_ZeroVariance ==
    Analyzed /\ ConstantUnequal
        => /\ ZeroVarianceVerdict
           /\ RMul(Res.effect_size, FromInt(samples.baseline_samples[1]))
                 = FromInt(100 * (samples.baseline_samples[1] - samples.candidate_samples[1]))

\* C30 as it holds: p_value 0, significant, the side with the smaller value
\* as winner; effect_size = 100 (b - c) / b when b is not 0, and
\* effect_size = 0 when b is 0, at every confidence level.
C30_ZeroVarianceNonZeroBaseline ==
    Analyzed /\ ConstantUnequal
        => /\ ZeroVarianceVerdict
           /\ samples.baseline_samples[1] # 0
                 => Res.effect_size
                      = Rat(100 * (samples.baseline_samples[1] - samples.candidate_samples[1]),
                            samples.baseline_samples[1])
           /\ samples.baseline_samples[1] = 0 => Res.effect_size = Zero
           /\ (samples.baseline_samples[1] = 10000 /\ samples.candidate_samples[1] = 1000)
                 => Res.effect_size = FromInt(90)
           /\ (samples.baseline_samples[1] = 1000 /\ samples.candidate_samples[1] = 10000)
                 => Res.effect_size = FromInt(-900)
           /\ (samples.baseline_samples[1] = 2000 /\ samples.candidate_samples[1] = 1000)
                 => Res.effect_size = FromInt(50)

\* 10000 ns against 1000 ns at confidence level 0.5: effect size 90.
C30_Witness ==
    /\ Analyzed
    /\ samples.baseline_samples = << 10000, 10000 >>
    /\ samples.candidate_samples = << 1000, 1000, 1000 >>
    /\ Res.confidence_level = Rat(1, 2)
    /\ Res.effect_size = FromInt(90)
    /\ Res.winner = Some("Candidate")

\* C31: whenever either vector has fewer than two elements, analyze returns
\* p_value 1, not significant, no winner and effect_size 0, whatever the
\* values and the confidence level.
C31_InsufficientSamples ==
    Analyzed /\ ~TwoEach
        => /\ Res.p_value = One
           /\ ~Res.statistically_significant
           /\ Res.winner = None
           /\ Res.effect_size = Zero

\* One sample against three, with different means.
C31_Witness ==
    /\ Analyzed
    /\ samples.baseline_samples = << 3 >>
    /\ samples.candidate_samples = << 0, 0, 1 >>
    /\ Res.p_value = One
    /\ Res.baseline_mean_ns = FromInt(3)

-----------------------------------------------------------------------------
(* Properties of the wire format (specification SpecWire) *)

\* The response has been serialized and read back.
Wired == pc = << "wired", "-" >>

\* C32: every response value, serialized to JSON and deserialized, is equal
\* to itself field by field; the serialized RunIterationResponse has the
\* key "error" exactly when its error field is Some.
C32_WireRoundtrip ==
    Wired =>
        /\ result[2].back = Ok(last.body)
        /\ last.kind = "run" => ("error" \in Keys(result[2].json) <=> is_some(last.body.error))

\* A failure whose message holds a backslash followed by 'n' came back as
\* it was.
C32_Witness ==
    /\ Wired
    /\ last.kind = "run"
    /\ last.body.error = Some(<< 92, 110 >>)
    /\ result[2].back = Ok(last.body)
    /\ Get(result[2].json, "error") = JsonString(<< 92, 92, 110 >>)

-----------------------------------------------------------------------------
(* The duration on the wire (specification Spec) *)

\* C33: for every Duration d that a benchmark function returns, the
\* response built by RunIterationResponse::success(d) gives d back from
\* duration(): nothing is lost in the u64 field duration_ns.
C33_DurationRoundtrip ==
    RunDone /\ last.calls # << >> /\ last.status = 200
        => RunIterationResponse_duration(last.body) = last.calls[1].duration

-----------------------------------------------------------------------------
(* Attach mode: the URLs (specification SpecUrls) *)

\* The URL has one of the two schemes.
ValidUrl(url) == starts_with(url, HttpPrefix) \/ starts_with(url, HttpsPrefix)

\* The URL without its last character when that is a slash.
StripOne(url) ==
    IF url # << >> /\ url[Len(url)] = 47 THEN SubSeq(url, 1, Len(url) - 1) ELSE url

\* The URL is text followed by slashes only, and text does not end in a slash.
StripsTo(url, text) ==
    /\ text = << >> \/ text[Len(text)] # 47
    /\ \E k \in 0..Len(url) : url = text \o [i \in 1..k |-> 47]

\* The step is the one that calls connect; Made(h) says that connect
\* returned a handle for h.
Connecting == pc = << "connect", "-" >> /\ pc' # pc

Made(h) == handle'[h].state # "none"

\* The connect step returned the error kind and made no handle for h or for
\* a harness that comes after h.
Refused(h, kind) ==
    /\ returned' = Err(kind)
    /\ ~Made(h) /\ ~Made("candidate")

\* The handles a connect step made are not managed and hold no nonce.
MadeRemote ==
    \A h \in Harnesses : Made(h) => ~handle'[h].is_managed /\ handle'[h].claim_nonce = None

\* connect succeeds exactly for the URLs with a scheme, the candidate being
\* tried only after the baseline; on failure InvalidUrl is returned and no
\* handle is made.
ConnectSucceedsIffValid ==
    /\ Made("baseline") <=> ValidUrl(urls["baseline"])
    /\ ~ValidUrl(urls["baseline"]) => Refused("baseline", "InvalidUrl")
    /\ ValidUrl(urls["baseline"])
          => /\ Made("candidate") <=> ValidUrl(urls["candidate"])
             /\ ~ValidUrl(urls["candidate"]) => Refused("candidate", "InvalidUrl")

\* connect returns InvalidUrl, and makes no handle, exactly for the URLs
\* without a scheme; for a URL with a scheme it makes a handle or, when the
\* HTTP client cannot be built, returns SpawnError and makes none. The
\* candidate is tried only after the baseline gave a handle.
ConnectValidates ==
    /\ Refused("baseline", "InvalidUrl") <=> ~ValidUrl(urls["baseline"])
    /\ ValidUrl(urls["baseline"])
          => Made("baseline") \/ Refused("baseline", "SpawnError")
    /\ Made("baseline")
          => /\ Refused("candidate", "InvalidUrl") <=> ~ValidUrl(urls["candidate"])
             /\ ValidUrl(urls["candidate"])
                   => Made("candidate") \/ Refused("candidate", "SpawnError")

\* C34: connect succeeds if and only if the URL starts with "http://" or
\* "https://" and otherwise returns InvalidUrl without creating a handle; a
\* handle it returns is remote, holds no claim nonce, and its base URL is
\* the URL with the trailing slash removed (one slash, or all there are).
C34_ConnectValidation ==
    [][Connecting
         => /\ ConnectSucceedsIffValid
            /\ MadeRemote
            /\ \A h \in Harnesses :
                  Made(h) => \/ handle'[h].base_url = StripOne(urls[h])
                             \/ StripsTo(urls[h], handle'[h].base_url)]_vars

\* C34 as it holds: connect returns InvalidUrl exactly for a URL without one
\* of the two schemes; for a URL with one it returns a handle unless the HTTP
\* client cannot be built, which gives SpawnError; no handle is made on
\* either error; a handle returned is remote, holds no claim nonce, and its
\* base URL is the URL with all of its trailing slashes removed.
C34_ConnectValidationAllSlashes ==
    [][Connecting
         => /\ ConnectValidates
            /\ MadeRemote
            /\ \A h \in Harnesses : Made(h) => StripsTo(urls[h], handle'[h].base_url)]_vars

\* The baseline, given with two trailing slashes, was attached to under the
\* URL without them; the candidate's URL has a scheme, and its connect
\* returned SpawnError without a handle.
C34_Witness ==
    /\ pc = << "returned", "-" >>
    /\ returned = Err("SpawnError")
    /\ urls = [baseline |-> UrlTwoSlashes, candidate |-> UrlHttps]
    /\ handle["baseline"].state = "dropped"
    /\ handle["baseline"].base_url = HttpPrefix \o << 99 >>
    /\ ~handle["baseline"].is_managed
    /\ handle["candidate"].state = "none"

-----------------------------------------------------------------------------
(* Concurrency of the benchmark function (specification Spec) *)

\* The harness is claimed under a non-empty nonce that the orchestrator
\* sent, and the orchestrator is the one client whose claim was granted.
ClaimedByOrch(h) ==
    /\ is_some(state_claim[h])
    /\ unwrap(state_claim[h]) \in NoncesOf(Orch) \ {NonceEmpty}
    /\ held[h] = {Orch}

\* C35: while a harness is Claimed(n) by an orchestrator that has one
\* outstanding request at a time, at most one invocation of a benchmark
\* function is in progress in that harness, whatever /run requests other
\* clients sent before, during or after the claim was taken. (The nonce is
\* taken non-empty: the case of the empty nonce is that of C1.)
C35_OneInFlight ==
    (ClaimedByOrch(RawHarness) /\ InFlightCount(RawHarness, LAMBDA r : r.client = Orch) <= 1)
        => InFlightCount(RawHarness, LAMBDA r : r.kind = "run") <= 1

-----------------------------------------------------------------------------
(* The nonce of a handle and the claim of its harness (specification SpecUrls) *)

\* The nonces that the claim() calls on the handle of harness h have sent.
IssuedBy(h) == {sent[i].val : i \in {j \in 1..Len(sent) : sent[j].ev = "claim" /\ sent[j].h = h}}

\* C36: between the claim() and release() calls on a handle, whatever the
\* transport did to each request, the handle stores nonce n if and only if
\* its harness is Claimed(n), for every nonce n that the handle issued; the
\* handle never is without its nonce while the harness is claimed under it.
C36_HandleAgreesWithHarness ==
    \A h \in Harnesses : \A n \in IssuedBy(h) :
        handle[h].state = "live"
            => (handle[h].claim_nonce = Some(n) <=> state_claim[h] = Some(n))

-----------------------------------------------------------------------------
(* What may change the claim state (specification Spec) *)

\* The step is a request that harness h answered (or let through).
Answered(h) == last' # last /\ last'.h = h

\* The step is a POST /claim that found h Unclaimed and claimed it.
ClaimsUnclaimed(h) ==
    /\ last'.kind = "claim" /\ last'.status = 200
    /\ state_claim[h] = None /\ state_claim'[h] = last'.nonce

\* The step is a POST /release with the current nonce of h.
ReleasesCurrent(h) ==
    /\ last'.kind = "release" /\ last'.status = 200
    /\ state_claim[h] = last'.nonce /\ state_claim'[h] = None

\* C37: the claim state is changed only by a POST /claim that finds it
\* Unclaimed and by a POST /release that carries the current nonce; /health,
\* /benchmarks, /run, /shutdown and every request answered 403, 404, 409 or
\* 400 leave it unchanged, and no step changes the registered benchmark ids.
C37_ClaimStateFrame ==
    [][\A h \in Harnesses :
          /\ registry'[h] = registry[h]
          /\ state_claim'[h] # state_claim[h]
                => Answered(h) /\ (ClaimsUnclaimed(h) \/ ReleasesCurrent(h))
          /\ Answered(h) /\ last'.kind \in {"health", "benchmarks", "run", "run_done",
                                             "shutdown", "shutdown_done"}
                => state_claim'[h] = state_claim[h]
          /\ Answered(h) /\ last'.status \in {400, 403, 404, 409}
                => state_claim'[h] = state_claim[h]]_vars

\* A claimed harness took a /shutdown with the right header and is still
\* claimed under the same nonce.
C37_Witness ==
    /\ last.kind = "shutdown_done" /\ last.status = 200 /\ last.h = RawHarness
    /\ is_some(last.pre)
    /\ state_claim[RawHarness] = last.pre

-----------------------------------------------------------------------------
(* The readiness wait (specification SpecHealth) *)

\* wait_for_health is waiting for harness h; the step is the one in which
\* it returns.
Waiting(h) == pc = << "health", h >>

HealthReturns(h) == Waiting(h) /\ pc' # pc

\* The step returns a TimeoutError.
ReturnsTimeout == result' # result /\ ~is_ok(result') /\ result'[2].kind = "TimeoutError"

\* C38: for every finite timeout, each health request completing,
\* wait_for_health returns in the end, with Ok or with a TimeoutError; it
\* returns only after a health check, also when the timeout is zero, and
\* with a TimeoutError only after a check that failed and that ended when
\* the time elapsed was at least the timeout.
C38_HealthWaitTerminates ==
    /\ \A h \in Harnesses : Waiting(h) ~> ~Waiting(h)
    /\ [][\A h \in Harnesses :
            HealthReturns(h)
                => /\ h \in healthy' \/ ReturnsTimeout
                   /\ h \in healthy' => last'.kind = "health" /\ last'.status = 200
                   /\ ReturnsTimeout
                         => is_some(health_error') /\ h \notin healthy' /\ elapsed' >= timeout]_vars

\* With a timeout of zero the baseline was checked once and found healthy,
\* and the wait for the candidate ended at its first check, which failed.
C38_Witness ==
    /\ timeout = 0
    /\ "baseline" \in healthy
    /\ result # << >> /\ ~is_ok(result) /\ result[2].kind = "TimeoutError"
    /\ is_some(health_error)
    /\ elapsed = 0

-----------------------------------------------------------------------------
(* The ports of the spawned harnesses (specification SpecPorts) *)

\* C39: for every base_port of 16 bits, Orchestrator::run gives the
\* baseline the port base_port and the candidate the port base_port + 1:
\* the sum neither overflows nor wraps, the two ports differ, and the URL of
\* the candidate handle names the port given to the candidate process.
C39_CandidatePort ==
    /\ returned # Panic("Overflow")
    /\ handle["baseline"].state # "none"
          => handle["baseline"].base_url = LocalPrefix \o itoa(base_port)
    /\ handle["candidate"].state # "none"
          => /\ handle["candidate"].base_url = LocalPrefix \o itoa(base_port + 1)
             /\ handle["candidate"].base_url # handle["baseline"].base_url

-----------------------------------------------------------------------------
(* When the confidence level is validated (specification SpecMain) *)

\* C40: a confidence level outside (0, 1) is rejected before any harness is
\* attached, claimed or sampled: when the rejection comes, no handle has been
\* made and no request has been sent, and it never comes first after the
\* sampling is over.
C40_ConfidenceValidatedFirst ==
    returned = Panic("confidence_level")
        => /\ \A h \in Harnesses : handle[h].state = "none"
           /\ sent = << >>
           /\ results = << >>

=============================================================================
